---- MODULE Spec2Model ----
(***************************************************************************)
(* A model of lib/abp2blocklist.js: the conversion of Adblock Plus filters *)
(* into WebKit content blocker rules (ContentBlockerList.addFilter and     *)
(* ContentBlockerList.generateRules) and the rule set optimizer.           *)
(*                                                                         *)
(* A JavaScript string is a sequence of characters.  An ASCII character is *)
(* the one-character string of that character; a character outside ASCII, *)
(* and the grave accent, is the string "U+XXXX" of its code point.  A      *)
(* content type bit mask is the set of the names of its bits.              *)
(***************************************************************************)
EXTENDS Integers, Sequences, FiniteSets, TLC

Min(a, b) == IF a < b THEN a ELSE b

(* null or undefined where a string is expected: a sequence that is no *)
(* string, since its element is no character                          *)
NULL == <<"null">>

(* Array.prototype.join over the elements lo..hi of a sequence of strings *)
RECURSIVE JoinRange(_, _, _, _)
JoinRange(parts, sep, lo, hi) ==
  IF lo > hi THEN <<>>
  ELSE IF lo = hi THEN parts[lo]
  ELSE LET mid == (lo + hi) \div 2
       IN JoinRange(parts, sep, lo, mid) \o sep \o
          JoinRange(parts, sep, mid + 1, hi)

Join(parts, sep) == JoinRange(parts, sep, 1, Len(parts))

(* Array.prototype.concat of the elements of a sequence of sequences *)
Flatten(parts) == JoinRange(parts, <<>>, 1, Len(parts))

(* String.prototype.startsWith *)
StartsWith(s, prefix) ==
  /\ Len(prefix) <= Len(s)
  /\ SubSeq(s, 1, Len(prefix)) = prefix

(* Array.prototype.includes *)
Includes(list, v) == \E i \in 1..Len(list) : list[i] = v

(* Array.prototype.filter, where mask[i] is what the callback returns for *)
(* list[i]                                                               *)
RECURSIVE PickRange(_, _, _, _)
PickRange(list, mask, lo, hi) ==
  IF lo > hi THEN <<>>
  ELSE IF lo = hi THEN (IF mask[lo] THEN <<list[lo]>> ELSE <<>>)
  ELSE PickRange(list, mask, lo, (lo + hi) \div 2) \o
       PickRange(list, mask, (lo + hi) \div 2 + 1, hi)

Pick(list, mask) == PickRange(list, mask, 1, Len(list))

(* The elements of a sequence in order of first occurrence (a JS Set) *)
Dedup(list) ==
  Pick(list, [i \in 1..Len(list) |->
                ~\E j \in 1..(i - 1) : list[j] = list[i]])

(***************************************************************************)
(* Characters                                                              *)
(***************************************************************************)
(* The grave accent, code point 96 *)
Grave == "U+0060"

Printable ==
  <<" ", "!", "\"", "#", "$", "%", "&", "'", "(", ")", "*", "+", ",", "-",
    ".", "/", "0", "1", "2", "3", "4", "5", "6", "7", "8", "9", ":", ";",
    "<", "=", ">", "?", "@", "A", "B", "C", "D", "E", "F", "G", "H", "I",
    "J", "K", "L", "M", "N", "O", "P", "Q", "R", "S", "T", "U", "V", "W",
    "X", "Y", "Z", "[", "\\", "]", "^", "_", Grave, "a", "b", "c", "d", "e",
    "f", "g", "h", "i", "j", "k", "l", "m", "n", "o", "p", "q", "r", "s",
    "t", "u", "v", "w", "x", "y", "z", "{", "|", "}", "~">>

AsciiChars == {Printable[i] : i \in 1..Len(Printable)}

(* e acute, E acute and the cat emoji of the unit tests *)
NonAsciiChars == {"U+00E9", "U+00C9", "U+1F408"}

NonAsciiCode ==
  [c \in NonAsciiChars |->
     CASE c = "U+00E9" -> 233
       [] c = "U+00C9" -> 201
       [] c = "U+1F408" -> 128008]

OrdTable ==
  [c \in AsciiChars |-> 31 + (CHOOSE i \in 1..Len(Printable) : Printable[i] = c)]

(* The code point of a character *)
Ord(c) == IF c \in NonAsciiChars THEN NonAsciiCode[c] ELSE OrdTable[c]

IsAscii(c) == Ord(c) < 128

IsLower(c) == Ord(c) >= 97 /\ Ord(c) <= 122
IsUpper(c) == Ord(c) >= 65 /\ Ord(c) <= 90
IsDigit(c) == Ord(c) >= 48 /\ Ord(c) <= 57

(* String.prototype.toLowerCase, one character *)
LowerChar(c) ==
  IF c \in NonAsciiChars
  THEN (IF c = "U+00C9" THEN "U+00E9" ELSE c)
  ELSE IF IsUpper(c) THEN Printable[Ord(c) + 32 - 31] ELSE c

toLowerCase(s) == [i \in 1..Len(s) |-> LowerChar(s[i])]

HexDigits ==
  <<"0", "1", "2", "3", "4", "5", "6", "7", "8", "9",
    "A", "B", "C", "D", "E", "F">>

PercentByte(b) == <<"%", HexDigits[(b \div 16) + 1], HexDigits[(b % 16) + 1]>>

(* The UTF-8 bytes of a code point *)
UTF8(n) ==
  IF n < 128 THEN <<n>>
  ELSE IF n < 2048 THEN <<192 + (n \div 64), 128 + (n % 64)>>
  ELSE IF n < 65536
  THEN <<224 + (n \div 4096), 128 + ((n \div 64) % 64), 128 + (n % 64)>>
  ELSE <<240 + (n \div 262144), 128 + ((n \div 4096) % 64),
         128 + ((n \div 64) % 64), 128 + (n % 64)>>

(* The characters encodeURI leaves alone besides letters and digits *)
URIUnescaped ==
  {";", ",", "/", "?", ":", "@", "&", "=", "+", "$", "-", "_", ".", "!",
   "~", "*", "'", "(", ")", "#"}

(* The character as it is, not encoded: C3 does not hold for it *)
unencoded(c) == <<c>>

(* encodeURI of a one-character string *)
encodeURI(c) ==
  IF IsAscii(c) /\ (IsLower(c) \/ IsUpper(c) \/ IsDigit(c) \/ c \in URIUnescaped)
  THEN <<c>>
  ELSE LET bytes == UTF8(Ord(c))
       IN Flatten([i \in 1..Len(bytes) |-> PercentByte(bytes[i])])

(***************************************************************************)
(* punycode.toASCII (RFC 3492), for domains without "@"                    *)
(***************************************************************************)
PunyDigit(d) ==
  IF d < 26 THEN Printable[97 + d - 31] ELSE Printable[48 + (d - 26) - 31]

RECURSIVE PunyAdaptLoop(_, _)
PunyAdaptLoop(delta, k) ==
  IF delta > 455 THEN PunyAdaptLoop(delta \div 35, k + 36)
  ELSE k + ((36 * delta) \div (delta + 38))

PunyAdapt(delta, numPoints, firstTime) ==
  LET d0 == IF firstTime THEN delta \div 700 ELSE delta \div 2
  IN PunyAdaptLoop(d0 + (d0 \div numPoints), 0)

RECURSIVE PunyVarInt(_, _, _)
PunyVarInt(q, k, bias) ==
  LET t == IF k <= bias THEN 1 ELSE IF k >= bias + 26 THEN 26 ELSE k - bias
  IN IF q < t THEN <<PunyDigit(q)>>
     ELSE <<PunyDigit(t + ((q - t) % (36 - t)))>> \o
          PunyVarInt((q - t) \div (36 - t), k + 36, bias)

(* The smallest code point of input that is at least n *)
PunyNext(input, n) ==
  CHOOSE x \in {Ord(input[i]) : i \in 1..Len(input)} :
    /\ x >= n
    /\ \A i \in 1..Len(input) : Ord(input[i]) >= n => x <= Ord(input[i])

(* The body of the inner loop for the code point input[i] *)
PunyStep(input, b, s, i) ==
  IF Ord(input[i]) < s.n THEN [s EXCEPT !.delta = s.delta + 1]
  ELSE IF Ord(input[i]) = s.n
  THEN [s EXCEPT !.out = s.out \o PunyVarInt(s.delta, 36, s.bias),
                 !.bias = PunyAdapt(s.delta, s.h + 1, s.h = b),
                 !.delta = 0,
                 !.h = s.h + 1]
  ELSE s

RECURSIVE PunyLoop(_, _, _, _)
PunyLoop(input, b, s, i) ==
  IF i > Len(input) THEN s
  ELSE PunyLoop(input, b, PunyStep(input, b, s, i), i + 1)

(* One round of the main loop: the code points equal to m are encoded *)
PunyRound(input, b, st, m) ==
  PunyLoop(input, b,
           [st EXCEPT !.delta = st.delta + (m - st.n) * (st.h + 1), !.n = m],
           1)

RECURSIVE PunyMain(_, _, _)
PunyMain(input, b, st) ==
  IF st.h >= Len(input) THEN st.out
  ELSE PunyMain(input, b,
                [PunyRound(input, b, st, PunyNext(input, st.n)) EXCEPT
                   !.delta = @ + 1, !.n = @ + 1])

(* The state of the encoder after the basic code points are copied *)
PunyStart(basic) ==
  [n |-> 128, delta |-> 0, bias |-> 72, h |-> Len(basic),
   out |-> IF Len(basic) > 0 THEN basic \o <<"-">> ELSE basic]

PunyBasic(input) == Pick(input, [i \in 1..Len(input) |-> IsAscii(input[i])])

PunyEncode(input) ==
  PunyMain(input, Len(PunyBasic(input)), PunyStart(PunyBasic(input)))

(* String.prototype.split on a one-character separator *)
RECURSIVE Split(_, _)
Split(s, ch) ==
  IF \A i \in 1..Len(s) : s[i] # ch THEN <<s>>
  ELSE LET k == CHOOSE i \in 1..Len(s) :
                  s[i] = ch /\ \A j \in 1..(i - 1) : s[j] # ch
       IN <<SubSeq(s, 1, k - 1)>> \o Split(SubSeq(s, k + 1, Len(s)), ch)

toASCIILabel(label) ==
  IF \E i \in 1..Len(label) : ~IsAscii(label[i])
  THEN <<"x", "n", "-", "-">> \o PunyEncode(label)
  ELSE label

toASCIILabels(labels) ==
  Join([i \in 1..Len(labels) |-> toASCIILabel(labels[i])], <<".">>)

toASCII(domain) == toASCIILabels(Split(domain, "."))

(***************************************************************************)
(* lib/abp2blocklist.js                                                    *)
(***************************************************************************)
selectorLimit == 5000

(* filterClasses.RegExpFilter.typeMap: the names of the bits.  UNNAMED *)
(* stands for the bits of a content type that typeMap gives no name.   *)
typeMap ==
  {"OTHER", "SCRIPT", "IMAGE", "STYLESHEET", "OBJECT", "SUBDOCUMENT",
   "DOCUMENT", "WEBSOCKET", "WEBRTC", "CSP", "PING", "XMLHTTPREQUEST",
   "OBJECT_SUBREQUEST", "MEDIA", "FONT", "POPUP", "GENERICBLOCK", "ELEMHIDE",
   "GENERICHIDE", "UNNAMED"}

httpRequestTypes ==
  {"IMAGE", "STYLESHEET", "SCRIPT", "FONT", "MEDIA", "POPUP", "OBJECT",
   "OBJECT_SUBREQUEST", "XMLHTTPREQUEST", "PING", "SUBDOCUMENT", "OTHER"}

rawRequestTypes ==
  {"XMLHTTPREQUEST", "WEBSOCKET", "WEBRTC", "OBJECT_SUBREQUEST", "PING",
   "OTHER"}

whitelistableRequestTypes == httpRequestTypes \cup {"WEBSOCKET", "WEBRTC"}

(* contentType & mask, as a truth value *)
Has(contentType, mask) == contentType \cap mask # {}

(* filter.domains is [default |-> the entry of the key "", list |-> the  *)
(* other entries <<domain, enabled>> in the order of for...in]; a filter *)
(* without domains has no entry to iterate over                          *)
(* The names pushed for the entries of names that are not "" and for which *)
(* push[i] holds                                                          *)
pushDomains(names, push) ==
  Flatten([i \in 1..Len(names) |->
             IF names[i] # <<>> /\ push[i]
             THEN <<toASCII(toLowerCase(names[i]))>> ELSE <<>>])

parseDomains(domains, included, excluded) ==
  [included |->
     included \o
     pushDomains([i \in 1..Len(domains.list) |-> domains.list[i][1]],
                 [i \in 1..Len(domains.list) |->
                    domains.list[i][2] /\ ~domains.default]),
   excluded |->
     excluded \o
     pushDomains([i \in 1..Len(domains.list) |-> domains.list[i][1]],
                 [i \in 1..Len(domains.list) |-> ~domains.list[i][2]])]

RegExpSpecial ==
  {".", "*", "+", "?", "^", "$", "{", "}", "(", ")", "|", "[", "]", "\\"}

escapeRegExp(s) ==
  Flatten([i \in 1..Len(s) |->
             IF s[i] \in RegExpSpecial THEN <<"\\", s[i]>> ELSE <<s[i]>>])

matchDomain(domain) ==
  IF domain = NULL \/ domain = <<>>
  THEN <<"^", "h", "t", "t", "p", "s", "?", ":", "/", "/">>
  ELSE <<"^", "h", "t", "t", "p", "s", "?", ":", "/", "/",
         "(", "[", "^", "/", ":", "]", "*", "\\", ".", ")", "?">> \o
       toLowerCase(escapeRegExp(domain)) \o <<"[", "/", ":", "]">>

(* getURLSchemes() without an argument sees no bit at all *)
getURLSchemes(contentType) ==
  IF /\ Has(contentType, {"WEBSOCKET"})
     /\ Has(contentType, {"WEBRTC"})
     /\ Has(contentType, httpRequestTypes)
  THEN <<(<<"[", "^", ":", "]", "+", ":", "(", "/", "/", ")", "?">>)>>
  ELSE (IF Has(contentType, {"WEBSOCKET"})
        THEN <<(<<"w", "s", "s", "?", ":", "/", "/">>)>> ELSE <<>>) \o
       (IF Has(contentType, {"WEBRTC"})
        THEN <<(<<"s", "t", "u", "n", "s", "?", ":">>),
               (<<"t", "u", "r", "n", "s", "?", ":">>)>> ELSE <<>>) \o
       (IF Has(contentType, httpRequestTypes)
        THEN <<(<<"h", "t", "t", "p", "s", "?", ":", "/", "/">>)>> ELSE <<>>)

(* String.prototype.slice(-n) *)
SliceEnd(s, n) == IF n >= Len(s) THEN s ELSE SubSeq(s, Len(s) - n + 1, Len(s))

findSubdomainsInList(domain, list) ==
  Flatten([i \in 1..Len(list) |->
             IF /\ Len(list[i]) > Len(domain) + 1
                /\ SliceEnd(list[i], Len(domain) + 1) = <<".">> \o domain
             THEN <<SubSeq(list[i], 1, Len(list[i]) - (Len(domain) + 1))>>
             ELSE <<>>])

(* hostnameStart == null *)
NoIndex == -1

(* characters[i] of JavaScript, i counted from 0; "undefined" off the ends *)
CharAt(characters, i) ==
  IF i >= 0 /\ i < Len(characters) THEN characters[i + 1] ELSE "undefined"

(* The separator class that "^" is lowered to *)
Separator(justHostname) ==
  <<"[", "^", "-", "_", ".", "%">> \o
  (IF ~justHostname THEN <<"A", "-", "Z">> ELSE <<>>) \o
  <<"a", "-", "z", "0", "-", "9", "]">>

(* The switch statement of parseFilterRegexpSource for the character c at i *)
parseSwitch(st, characters, urlScheme, c, i) ==
  LET lastIndex == Len(characters) - 1
      Push(str) == [st EXCEPT !.regexp = st.regexp \o str]
  IN CASE c = "*" ->
            IF /\ Len(st.regexp) > 0
               /\ i < lastIndex
               /\ CharAt(characters, i + 1) # "*"
            THEN Push(<<".", "*">>)
            ELSE st
       [] c = "^" ->
            LET separator == Separator(st.justHostname)
            IN IF i = 0
               THEN Push(<<"^">> \o urlScheme \o <<"(", ".", "*">> \o
                         separator \o <<")", "?">>)
               ELSE IF i = lastIndex
               THEN Push(<<"(">> \o separator \o <<".", "*", ")", "?", "$">>)
               ELSE Push(separator)
       [] c = "|" ->
            IF i = 0 THEN Push(<<"^">>)
            ELSE IF i = lastIndex THEN Push(<<"$">>)
            ELSE IF i = 1 /\ CharAt(characters, 0) = "|"
            THEN [st EXCEPT
                    !.hostnameStart = i + 1,
                    !.canSafelyMatchAsLowercase = TRUE,
                    !.regexp = st.regexp \o urlScheme \o
                      <<"(", "[", "^", "/", "]", "+", "\\", ".", ")", "?">>]
            ELSE Push(<<"\\", "|">>)
       [] c = "/" ->
            IF /\ ~st.hostnameFinished
               /\ CharAt(characters, i - 2) = ":"
               /\ CharAt(characters, i - 1) = "/"
            THEN [st EXCEPT !.hostnameStart = i + 1,
                            !.canSafelyMatchAsLowercase = TRUE,
                            !.regexp = st.regexp \o <<"/">>]
            ELSE Push(<<"/">>)
       [] c \in {".", "+", "$", "?", "{", "}", "(", ")", "[", "]", "\\"} ->
            Push(<<"\\", c>>)
       [] OTHER ->
            [st EXCEPT
               !.canSafelyMatchAsLowercase =
                 IF st.hostnameFinished /\ (IsLower(c) \/ IsUpper(c))
                 THEN FALSE ELSE st.canSafelyMatchAsLowercase,
               !.regexp = st.regexp \o (IF c = "%" THEN <<c>> ELSE encodeURI(c))]

(* The end of the hostname part, which is characters[hostnameStart..end) *)
finishHostname(st, hostname) ==
  [st EXCEPT !.hostname = hostname,
             !.hostnameFinished = TRUE,
             !.justHostname = TRUE,
             !.regexp = st.regexp \o escapeRegExp(hostname)]

hostnameUpTo(st, characters, end) ==
  finishHostname(st, toASCII(toLowerCase(SubSeq(characters,
                                                st.hostnameStart + 1, end))))

(* One iteration of the loop of parseFilterRegexpSource after the reset of *)
(* justHostname                                                            *)
parseCharacter(st, characters, urlScheme, i) ==
  IF st.hostnameStart # NoIndex /\ ~st.hostnameFinished
  THEN IF characters[i + 1] \in {"*", "^", "?", "/", "|"}
       THEN parseSwitch(hostnameUpTo(st, characters, i), characters,
                        urlScheme, characters[i + 1], i)
       ELSE IF i # Len(characters) - 1 THEN st
       ELSE [hostnameUpTo(st, characters, i + 1) EXCEPT !.done = TRUE]
  ELSE parseSwitch(st, characters, urlScheme, characters[i + 1], i)

(* One iteration of the loop of parseFilterRegexpSource; done is the break *)
parseStep(st, characters, urlScheme, i) ==
  IF st.done THEN st
  ELSE parseCharacter(IF st.hostnameFinished
                      THEN [st EXCEPT !.justHostname = FALSE] ELSE st,
                      characters, urlScheme, i)

RECURSIVE parseLoop(_, _, _, _)
parseLoop(st, characters, urlScheme, i) ==
  IF i > Len(characters) - 1 THEN st
  ELSE parseLoop(parseStep(st, characters, urlScheme, i),
                 characters, urlScheme, i + 1)

(* The variables of parseFilterRegexpSource before the loop *)
parseStart ==
  [regexp |-> <<>>, hostname |-> NULL, hostnameStart |-> NoIndex,
   hostnameFinished |-> FALSE, justHostname |-> FALSE,
   canSafelyMatchAsLowercase |-> FALSE, done |-> FALSE]

(* The object that parseFilterRegexpSource returns *)
parseResult(st) ==
  [regexp |-> st.regexp,
   canSafelyMatchAsLowercase |-> st.canSafelyMatchAsLowercase,
   hostname |-> st.hostname,
   justHostname |-> st.justHostname]

(* text is the array Array.from(text) of code points; urlScheme NULL is a *)
(* call without the second argument                                       *)
parseFilterRegexpSource(text, urlScheme) ==
  parseResult(parseLoop(parseStart, text,
                        IF urlScheme = NULL
                        THEN <<"u", "n", "d", "e", "f", "i", "n", "e", "d">>
                        ELSE urlScheme,
                        0))

getResourceTypes(contentType) ==
  (IF Has(contentType, {"IMAGE"}) THEN <<"image">> ELSE <<>>) \o
  (IF Has(contentType, {"STYLESHEET"}) THEN <<"style-sheet">> ELSE <<>>) \o
  (IF Has(contentType, {"SCRIPT"}) THEN <<"script">> ELSE <<>>) \o
  (IF Has(contentType, {"FONT"}) THEN <<"font">> ELSE <<>>) \o
  (IF Has(contentType, {"MEDIA", "OBJECT"}) THEN <<"media">> ELSE <<>>) \o
  (IF Has(contentType, {"POPUP"}) THEN <<"popup">> ELSE <<>>) \o
  (IF Has(contentType, rawRequestTypes) THEN <<"raw">> ELSE <<>>) \o
  (IF Has(contentType, {"SUBDOCUMENT"}) THEN <<"document">> ELSE <<>>)

(***************************************************************************)
(* A trigger or an action is a function from the keys it has to their      *)
(* values; a rule is [trigger |-> ..., action |-> ...].                    *)
(***************************************************************************)
HasKey(object, key) == key \in DOMAIN object

(* object[key] = value *)
SetKey(object, key, value) == (key :> value) @@ object

(* delete object[key] *)
DeleteKey(object, key) == [k \in DOMAIN object \ {key} |-> object[k]]

(* urlSchemes[0] where it is used as text *)
FirstScheme(urlSchemes) ==
  IF Len(urlSchemes) = 0
  THEN <<"u", "n", "d", "e", "f", "i", "n", "e", "d">>
  ELSE urlSchemes[1]

(* The part of the url-filter that follows the URL scheme in each copy *)
filterPattern(urlFilter, urlSchemes) ==
  IF StartsWith(urlFilter, <<"^">> \o FirstScheme(urlSchemes))
  THEN SubSeq(urlFilter, Len(FirstScheme(urlSchemes)) + 2, Len(urlFilter))
  ELSE <<".", "*">> \o SubSeq(urlFilter, 2, Len(urlFilter))

(* No copy for the other URL schemes: C8 does not hold for it *)
noRuleCopies(trigger, action, urlSchemes) == <<>>

makeRuleCopies(trigger, action, urlSchemes) ==
  [k \in 1..(Len(urlSchemes) -
             (IF StartsWith(trigger["url-filter"],
                            <<"^">> \o FirstScheme(urlSchemes))
              THEN 1 ELSE 0)) |->
     [trigger |->
        SetKey(trigger, "url-filter",
               <<"^">> \o
               urlSchemes[k + (IF StartsWith(trigger["url-filter"],
                                             <<"^">> \o
                                             FirstScheme(urlSchemes))
                               THEN 1 ELSE 0)] \o
               filterPattern(trigger["url-filter"], urlSchemes)),
      action |-> action]]

excludeTopURLFromTrigger(trigger) ==
  IF HasKey(trigger, "url-filter-is-case-sensitive")
  THEN SetKey(SetKey(trigger, "unless-top-url", <<trigger["url-filter"]>>),
              "top-url-filter-is-case-sensitive", TRUE)
  ELSE SetKey(trigger, "unless-top-url", <<trigger["url-filter"]>>)

(* new RegExp("^" + scheme).test(s) for the patterns of getURLSchemes *)
SchemeTest(scheme, s) ==
  LET Lit(str) == StartsWith(s, str)
  IN CASE scheme = <<"h", "t", "t", "p", "s", "?", ":", "/", "/">> ->
            \/ Lit(<<"h", "t", "t", "p", ":", "/", "/">>)
            \/ Lit(<<"h", "t", "t", "p", "s", ":", "/", "/">>)
       [] scheme = <<"w", "s", "s", "?", ":", "/", "/">> ->
            \/ Lit(<<"w", "s", ":", "/", "/">>)
            \/ Lit(<<"w", "s", "s", ":", "/", "/">>)
       [] scheme = <<"s", "t", "u", "n", "s", "?", ":">> ->
            \/ Lit(<<"s", "t", "u", "n", ":">>)
            \/ Lit(<<"s", "t", "u", "n", "s", ":">>)
       [] scheme = <<"t", "u", "r", "n", "s", "?", ":">> ->
            \/ Lit(<<"t", "u", "r", "n", ":">>)
            \/ Lit(<<"t", "u", "r", "n", "s", ":">>)
       [] scheme = <<"[", "^", ":", "]", "+", ":", "(", "/", "/", ")", "?">> ->
            /\ Len(s) >= 2
            /\ s[1] # ":"
            /\ \E i \in 2..Len(s) : s[i] = ":"

(* The wildcard entry whatever is excluded: C10 does not hold for it *)
wildcardName(filter, name, notSubdomains) == <<(<<"*">> \o name)>>

(* The entries of the if-domain list for one included domain *)
ifDomainNames(filter, name, notSubdomains) ==
  IF /\ filter.class \in {"BlockingFilter", "ElemHideFilter"}
     /\ Len(notSubdomains) > 0
  THEN IF ~Includes(notSubdomains, <<"w", "w", "w">>)
       THEN <<name, <<"w", "w", "w", ".">> \o name>>
       ELSE <<name>>
  ELSE <<(<<"*">> \o name)>>

(* The if-domain list of convertFilterAddRules *)
ifDomain(filter, included, excluded) ==
  Flatten([i \in 1..Len(included) |->
             ifDomainNames(filter, included[i],
                           findSubdomainsInList(included[i], excluded))])

(* trigger["url-filter"] as parseFilterRegexpSource returns it *)
unanchoredURLFilter(regexp, urlSchemes) == regexp

(* trigger["url-filter"] once it is anchored *)
anchoredURLFilter(regexp, urlSchemes) ==
  IF CharAt(regexp, 0) # "^"
  THEN IF ~\E k \in 1..Len(urlSchemes) : SchemeTest(urlSchemes[k], regexp)
       THEN <<"^">> \o FirstScheme(urlSchemes) \o <<".", "*">> \o regexp
       ELSE <<"^">> \o regexp
  ELSE regexp

(* The rule of a whitelisted hostname *)
catchAllRule(hostname) ==
  [trigger |-> ("url-filter" :> <<".", "*">>) @@
               ("if-domain" :> <<(<<"*">> \o hostname)>>),
   action |-> [type |-> "ignore-previous-rules"]]

(* The condition without the class and the content type of the filter: C9 *)
(* does not hold for it                                                   *)
isHostnameOnly(filter, contentType, parsed) == parsed.justHostname

(* The condition of the special case of a whitelisted hostname *)
isCatchAll(filter, contentType, parsed) ==
  /\ filter.class = "WhitelistFilter"
  /\ Has(contentType, {"DOCUMENT"})
  /\ parsed.justHostname

needAltRules(parsed, urlSchemes) ==
  \/ CharAt(parsed.regexp, 0) # "^"
  \/ StartsWith(parsed.regexp, <<"^">> \o FirstScheme(urlSchemes))

(* The url-filter in lower case whatever the filter is: C13 does not hold *)
(* for it                                                               *)
lowerURLFilter(filter, parsed, urlSchemes) ==
  toLowerCase(anchoredURLFilter(parsed.regexp, urlSchemes))

(* trigger["url-filter"] after the lowering *)
urlFilterOf(filter, parsed, urlSchemes) ==
  IF parsed.canSafelyMatchAsLowercase /\ ~filter.matchCase
  THEN toLowerCase(anchoredURLFilter(parsed.regexp, urlSchemes))
  ELSE anchoredURLFilter(parsed.regexp, urlSchemes)

(* trigger before the domains are looked at; resourceTypes is the value of *)
(* trigger["resource-type"]                                                *)
triggerOf(filter, parsed, urlSchemes, withResourceTypes, resourceTypes) ==
  ("url-filter" :> urlFilterOf(filter, parsed, urlSchemes)) @@
  (IF parsed.canSafelyMatchAsLowercase \/ filter.matchCase
   THEN ("url-filter-is-case-sensitive" :> TRUE) ELSE <<>>) @@
  (IF withResourceTypes THEN ("resource-type" :> resourceTypes) ELSE <<>>) @@
  (IF filter.thirdParty # "null"
   THEN ("load-type" :> <<IF filter.thirdParty = "true" THEN "third-party"
                          ELSE "first-party">>)
   ELSE <<>>)

(* resourceTypes without the filter of "document": C6 does not hold for it *)
allResourceTypes(filter, parsed, resourceTypes) == resourceTypes

(* getResourceTypes(contentType) after the removal of "document" *)
resourceTypesOf(filter, parsed, resourceTypes) ==
  IF filter.class = "BlockingFilter" /\ parsed.hostname \in {NULL, <<>>}
  THEN Pick(resourceTypes,
            [k \in 1..Len(resourceTypes) |-> resourceTypes[k] # "document"])
  ELSE resourceTypes

(* The condition without the content type and the hostname: C12 does not *)
(* hold for it                                                          *)
isBlocking(filter, parsed) == filter.class = "BlockingFilter"

(* The condition under which a filter without domains gets unless-top-url *)
isTopLevel(filter, parsed) ==
  /\ filter.class = "BlockingFilter"
  /\ Has(filter.contentType, {"SUBDOCUMENT"})
  /\ parsed.hostname \notin {NULL, <<>>}

(* trigger with the included and the excluded domains both written to *)
(* it: C2 does not hold for it                                       *)
withBothDomains(filter, parsed, trigger, included, excluded) ==
  (IF Len(included) > 0
   THEN "if-domain" :> [i \in 1..Len(included) |-> <<"*">> \o included[i]]
   ELSE <<>>) @@
  (IF Len(excluded) > 0
   THEN "unless-domain" :> [i \in 1..Len(excluded) |-> <<"*">> \o excluded[i]]
   ELSE <<>>) @@ trigger

(* trigger after the domains are looked at *)
withDomains(filter, parsed, trigger, included, excluded) ==
  IF Len(included) > 0
  THEN SetKey(trigger, "if-domain", ifDomain(filter, included, excluded))
  ELSE IF Len(excluded) > 0
  THEN SetKey(trigger, "unless-domain",
              [i \in 1..Len(excluded) |-> <<"*">> \o excluded[i]])
  ELSE IF isTopLevel(filter, parsed) THEN excludeTopURLFromTrigger(trigger)
  ELSE trigger

(* The rules of makeRuleCopies as they are pushed *)
altRules(copies, addTopLevelException) ==
  [i \in 1..Len(copies) |->
     IF addTopLevelException
     THEN [copies[i] EXCEPT !.trigger = excludeTopURLFromTrigger(@)]
     ELSE copies[i]]

(* The last statements of convertFilterAddRules: the rules pushed for trigger *)
pushRules(rules, trigger, action, urlSchemes, alt, addTopLevelException) ==
  Append(rules, [trigger |-> trigger, action |-> [type |-> action]]) \o
  (IF alt
   THEN altRules(makeRuleCopies(trigger, [type |-> action], urlSchemes),
                 addTopLevelException)
   ELSE <<>>)

(* convertFilterAddRules from "let included" on *)
convertDomains(rules, filter, action, withResourceTypes, urlSchemes, parsed, included, excluded, resourceTypes) ==
  IF withResourceTypes /\ Len(resourceTypes) = 0 THEN rules
  ELSE pushRules(rules,
                 withDomains(filter, parsed,
                             triggerOf(filter, parsed, urlSchemes,
                                       withResourceTypes, resourceTypes),
                             included, excluded),
                 action, urlSchemes, needAltRules(parsed, urlSchemes),
                 /\ Len(included) = 0
                 /\ Len(excluded) = 0
                 /\ isTopLevel(filter, parsed))

(* convertFilterAddRules from "let trigger" on *)
convertTrigger(rules, filter, action, withResourceTypes, exceptionDomains, contentType, urlSchemes, parsed) ==
  convertDomains(rules, filter, action, withResourceTypes, urlSchemes, parsed,
                 parseDomains(filter.domains, <<>>, <<>>).included,
                 parseDomains(filter.domains, <<>>, <<>>).excluded \o
                 exceptionDomains,
                 resourceTypesOf(filter, parsed,
                                 getResourceTypes(contentType)))

(* convertFilterAddRules from the special case of a hostname on *)
convertParsed(rules, filter, action, withResourceTypes, exceptionDomains, contentType, urlSchemes, parsed) ==
  IF /\ isCatchAll(filter, contentType, parsed)
     /\ ~Has(contentType, whitelistableRequestTypes)
  THEN Append(rules, catchAllRule(parsed.hostname))
  ELSE convertTrigger(IF isCatchAll(filter, contentType, parsed)
                      THEN Append(rules, catchAllRule(parsed.hostname))
                      ELSE rules,
                      filter, action, withResourceTypes, exceptionDomains,
                      contentType, urlSchemes, parsed)

(* convertFilterAddRules from "let urlSchemes" on, for the content type *)
(* that is left after the split                                         *)
convertFilterAddRulesBody(rules, filter, action, withResourceTypes, exceptionDomains, contentType) ==
  convertParsed(rules, filter, action, withResourceTypes, exceptionDomains,
                contentType, getURLSchemes(contentType),
                parseFilterRegexpSource(
                  filter.regexpSource,
                  IF Len(getURLSchemes(contentType)) = 0 THEN NULL
                  ELSE getURLSchemes(contentType)[1]))

(* The condition under which WEBSOCKET and WEBRTC get rules of their own *)
isSplit(contentType) ==
  \/ /\ Has(contentType, {"WEBSOCKET"})
     /\ contentType # {"WEBSOCKET"}
     /\ ~(/\ Has(contentType, {"WEBRTC"})
          /\ Has(contentType, rawRequestTypes \cap httpRequestTypes))
  \/ /\ Has(contentType, {"WEBRTC"})
     /\ contentType # {"WEBRTC"}
     /\ ~(/\ Has(contentType, {"WEBSOCKET"})
          /\ Has(contentType, rawRequestTypes \cap httpRequestTypes))

(* contentType {} is a call without the last argument; exceptionDomains *)
(* <<>> is a call without exceptionDomains                              *)
RECURSIVE convertFilterAddRules(_, _, _, _, _, _)

(* The recursive call for type, which is WEBSOCKET or WEBRTC *)
convertType(rules, filter, action, withResourceTypes, exceptionDomains, contentType, type) ==
  IF isSplit(contentType) /\ Has(contentType, {type})
  THEN convertFilterAddRules(rules, filter, action, withResourceTypes,
                             exceptionDomains, {type})
  ELSE rules

(* convertFilterAddRules once contentType has its value *)
convertContentType(rules, filter, action, withResourceTypes, exceptionDomains, contentType) ==
  IF isSplit(contentType) /\ contentType \ {"WEBSOCKET", "WEBRTC"} = {}
  THEN convertType(convertType(rules, filter, action, withResourceTypes,
                               exceptionDomains, contentType, "WEBSOCKET"),
                   filter, action, withResourceTypes, exceptionDomains,
                   contentType, "WEBRTC")
  ELSE convertFilterAddRulesBody(
         convertType(convertType(rules, filter, action, withResourceTypes,
                                 exceptionDomains, contentType, "WEBSOCKET"),
                     filter, action, withResourceTypes, exceptionDomains,
                     contentType, "WEBRTC"),
         filter, action, withResourceTypes, exceptionDomains,
         IF isSplit(contentType) THEN contentType \ {"WEBSOCKET", "WEBRTC"}
         ELSE contentType)

convertFilterAddRules(rules, filter, action, withResourceTypes, exceptionDomains, contentTypeArg) ==
  convertContentType(rules, filter, action, withResourceTypes,
                     exceptionDomains,
                     IF contentTypeArg = {} THEN filter.contentType
                     ELSE contentTypeArg)

(* One iteration of the first loop of convertIDSelectorsToAttributeSelectors; *)
(* skip is the i++ of an escaped character, sep "" is no open quote           *)
idScanStep(st, selector, i) ==
  LET chr == selector[i + 1]
      o == Ord(chr)
  IN IF st.skip THEN [st EXCEPT !.skip = FALSE]
     ELSE IF chr = "\\" THEN [st EXCEPT !.skip = TRUE]
     ELSE IF chr = st.sep THEN [st EXCEPT !.sep = ""]
     ELSE IF st.sep = ""
     THEN IF chr = "\"" \/ chr = "'" THEN [st EXCEPT !.sep = chr]
          ELSE IF st.start = NoIndex
          THEN IF chr = "#" THEN [st EXCEPT !.start = i] ELSE st
          ELSE IF /\ chr # "-"
                  /\ chr # "_"
                  /\ \/ o < 48
                     \/ (o > 57 /\ o < 65)
                     \/ (o > 90 /\ o < 97)
                     \/ (o > 122 /\ o < 128)
          THEN [st EXCEPT
                  !.positions = Append(st.positions,
                                       [start |-> st.start, end |-> i]),
                  !.start = NoIndex]
          ELSE st
     ELSE st

(* selector is the string as UTF-16 code units *)
convertIDSelectorsToAttributeSelectors(selector) ==
  LET RECURSIVE Scan(_, _, _)
      Scan(st, lo, hi) ==
        IF lo > hi THEN st
        ELSE IF lo = hi THEN idScanStep(st, selector, lo)
        ELSE CHOOSE r \in {Scan(v, (lo + hi) \div 2 + 1, hi) :
                             v \in {Scan(st, lo, (lo + hi) \div 2)}} : TRUE
      Positions(scanned) ==
        IF scanned.start # NoIndex
        THEN Append(scanned.positions,
                    [start |-> scanned.start, end |-> Len(selector)])
        ELSE scanned.positions
      Build(positions) ==
        Flatten([k \in 1..Len(positions) |->
                   SubSeq(selector,
                          (IF k = 1 THEN 0 ELSE positions[k - 1].end) + 1,
                          positions[k].start) \o
                   <<"[", "i", "d", "=">> \o
                   SubSeq(selector, positions[k].start + 2,
                          positions[k].end) \o <<"]">>]) \o
        SubSeq(selector,
               (IF positions = <<>> THEN 0
                ELSE positions[Len(positions)].end) + 1,
               Len(selector))
  IN Build(Positions(Scan([sep |-> "", start |-> NoIndex,
                           positions |-> <<>>, skip |-> FALSE],
                          0, Len(selector) - 1)))

(* exceptionDomains is the Set as the sequence of its elements in insertion *)
(* order; unlessDomain NULL is null                                         *)
addCSSRules(rules, selectors, domain, exceptionDomains) ==
  LET Matches(name) ==
        \/ domain = NULL
        \/ domain = <<>>
        \/ SliceEnd(name, Len(domain) + 1) = <<".">> \o domain
      Trigger(trigger) ==
        IF Len(exceptionDomains) > 0
        THEN SetKey(trigger, "unless-domain",
                    Flatten([i \in 1..Len(exceptionDomains) |->
                               IF Matches(exceptionDomains[i])
                               THEN <<(<<"*">> \o exceptionDomains[i])>>
                               ELSE <<>>]))
        ELSE trigger
      Rule(lo, hi) ==
        [trigger |-> Trigger(("url-filter" :> matchDomain(domain)) @@
                             ("url-filter-is-case-sensitive" :> TRUE)),
         action |-> [type |-> "css-display-none",
                     selector |->
                       convertIDSelectorsToAttributeSelectors(
                         JoinRange(selectors, <<",", " ">>, lo, hi))]]
  IN rules \o
     [k \in 1..((Len(selectors) + selectorLimit - 1) \div selectorLimit) |->
        Rule((k - 1) * selectorLimit + 1,
             Min(k * selectorLimit, Len(selectors)))]

(***************************************************************************)
(* The rule set optimizer                                                  *)
(***************************************************************************)
(* null as the result of closeMatch *)
NoEdit == [type |-> "null", index |-> NoIndex, endIndex |-> NoIndex]

(* The characters closeMatch refuses in the delta *)
CloseMatchSpecial == {".", "+", "$", "?", "{", "}", "(", ")", "[", "]", "\\"}

(* endIndex NoIndex is an edit without endIndex *)
closeMatch(source, target) ==
  LET diff == Len(source) - Len(target)
      s == IF diff < 0 THEN target ELSE source
      t == IF diff < 0 THEN source ELSE target
      Differs(k) == CharAt(s, k) # CharAt(t, k)
      i == IF \E k \in 0..(Len(s) - 1) : Differs(k)
           THEN CHOOSE k \in 0..(Len(s) - 1) :
                  Differs(k) /\ \A m \in 0..(k - 1) : ~Differs(m)
           ELSE Len(s)
      Stops(k) == \/ Len(t) - k = i
                  \/ CharAt(s, Len(s) - k - 1) # CharAt(t, Len(t) - k - 1)
      j == IF \E k \in 0..(Len(t) - 1) : Stops(k)
           THEN CHOOSE k \in 0..(Len(t) - 1) :
                  Stops(k) /\ \A m \in 0..(k - 1) : ~Stops(m)
           ELSE Len(t)
  IN IF diff = 0 /\ Len(t) - j - i # 1 THEN NoEdit
     ELSE IF diff # 0 /\ i # Len(t) - j THEN NoEdit
     ELSE IF \E k \in i..(Len(s) - j - 1) : CharAt(s, k) \in CloseMatchSpecial
     THEN NoEdit
     ELSE IF diff = 0
     THEN [type |-> "substitute", index |-> i, endIndex |-> NoIndex]
     ELSE IF diff > 0
     THEN [type |-> "delete", index |-> i,
           endIndex |-> IF diff > 1 THEN Len(s) - j ELSE NoIndex]
     ELSE [type |-> "insert", index |-> i,
           endIndex |-> IF diff < -1 THEN Len(s) - j ELSE NoIndex]

heuristicRange == 1000

(* The entry of a rule in rulesInfo.  matches[k] is <<>> where the array   *)
(* has no entry for the index k, bestMatches is the index k of the entry   *)
(* of matches that bestMatches refers to, multiEditMatch NoMatch is none.  *)
NoMatch == [edit |-> NoEdit, index |-> NoIndex]

RuleInfo(rule) ==
  [rule |-> rule, redundant |-> FALSE, merged |-> FALSE, mergedInto |-> FALSE,
   matches |-> <<>>, multiEditMatch |-> NoMatch, bestMatches |-> NoIndex]

URLFilterOf(ruleInfo) == ruleInfo.rule.trigger["url-filter"]

(* The search limit of a rule at index (0-based) of a group of n rules *)
SearchLimit(index, n, exhaustive) ==
  IF exhaustive THEN n ELSE Min(index + heuristicRange, n)

(* The comparison of the url-filters src of the rule i and tgt of the rule *)
(* j in eliminateRedundantRulesByURLFilter; brk is the break              *)
compareURLFilters(st, src, tgt, i, j) ==
  IF Len(src) >= Len(tgt)
  THEN IF SubSeq(src, 1, Len(tgt)) = tgt
       THEN [info |-> [st.info EXCEPT ![i + 1].redundant = TRUE],
             brk |-> TRUE]
       ELSE st
  ELSE IF SubSeq(tgt, 1, Len(src)) = src
  THEN [st EXCEPT !.info[j + 1].redundant = TRUE]
  ELSE st

(* The body of the inner loop for the pair i, j *)
compareRules(st, i, j) ==
  IF st.brk \/ st.info[j + 1].redundant THEN st
  ELSE compareURLFilters(st, URLFilterOf(st.info[i + 1]),
                         URLFilterOf(st.info[j + 1]), i, j)

(* The inner loop for j from lo to hi *)
RECURSIVE compareRange(_, _, _, _)
compareRange(st, i, lo, hi) ==
  IF lo > hi THEN st
  ELSE IF lo = hi THEN compareRules(st, i, lo)
  ELSE CHOOSE r \in
         {compareRange(v, i, (lo + hi) \div 2 + 1, hi) :
            v \in {compareRange(st, i, lo, (lo + hi) \div 2)}} : TRUE

(* The callback of the outer loop for the rule at index *)
markRedundantFrom(rulesInfo, index, exhaustive) ==
  IF rulesInfo[index + 1].redundant THEN rulesInfo
  ELSE compareRange([info |-> rulesInfo, brk |-> FALSE], index, index + 1,
                    SearchLimit(index, Len(rulesInfo), exhaustive) - 1).info

(* The outer loop for index from lo to hi *)
RECURSIVE markRedundantRange(_, _, _, _)
markRedundantRange(rulesInfo, exhaustive, lo, hi) ==
  IF lo > hi THEN rulesInfo
  ELSE IF lo = hi THEN markRedundantFrom(rulesInfo, lo, exhaustive)
  ELSE CHOOSE r \in
         {markRedundantRange(v, exhaustive, (lo + hi) \div 2 + 1, hi) :
            v \in {markRedundantRange(rulesInfo, exhaustive, lo, (lo + hi) \div 2)}} : TRUE

(* eliminateRedundantRulesByURLFilter before the final filter: the group *)
(* with the redundant flags set                                          *)
markRedundantRules(rulesInfo, exhaustive) ==
  markRedundantRange(rulesInfo, exhaustive, 0, Len(rulesInfo) - 1)

(* Array.prototype.filter by the flags of the entries *)
Unflagged(rulesInfo, redundant, merged) ==
  Pick(rulesInfo,
       [k \in 1..Len(rulesInfo) |->
          /\ redundant => ~rulesInfo[k].redundant
          /\ merged => ~rulesInfo[k].merged])

(* No rule is taken for redundant: C18 does not hold for it *)
keepRedundantRules(rulesInfo, exhaustive) == rulesInfo

eliminateRedundantRulesByURLFilter(rulesInfo, exhaustive) ==
  Unflagged(markRedundantRules(rulesInfo, exhaustive), TRUE, FALSE)

(* ruleInfo.matches[k], <<>> where there is none *)
MatchesAt(ruleInfo, k) ==
  IF k >= 0 /\ k < Len(ruleInfo.matches) THEN ruleInfo.matches[k + 1] ELSE <<>>

(* The body of the loop of findMatchesForRuleByURLFilter for the pair i, j *)
recordMatch(rulesInfo, i, j) ==
  LET Record(found, insert, owner) ==
        LET edit == IF insert THEN [found EXCEPT !.type = "delete"] ELSE found
            urlFilter == URLFilterOf(rulesInfo[owner + 1])
            match == [edit |-> edit, index |-> IF insert THEN i ELSE j]
            ruleInfo == rulesInfo[owner + 1]
            multiEdit == edit.endIndex # NoIndex /\ edit.endIndex # 0
            matches0 == IF ruleInfo.matches = <<>>
                        THEN [k \in 1..Len(urlFilter) |-> <<>>]
                        ELSE ruleInfo.matches
            matches1 == [matches0 EXCEPT ![edit.index + 1] = Append(@, match)]
            best == IF \/ ruleInfo.bestMatches = NoIndex
                       \/ Len(matches1[edit.index + 1]) >
                            Len(matches1[ruleInfo.bestMatches + 1])
                    THEN edit.index
                    ELSE ruleInfo.bestMatches
        IN IF found = NoEdit THEN rulesInfo
           ELSE IF multiEdit
           THEN IF ruleInfo.multiEditMatch = NoMatch
                THEN [rulesInfo EXCEPT ![owner + 1].multiEditMatch = match]
                ELSE rulesInfo
           ELSE [rulesInfo EXCEPT ![owner + 1].matches = matches1,
                                  ![owner + 1].bestMatches = best]
      Found(found) ==
        Record(found, found.type = "insert",
               IF found.type = "insert" THEN j ELSE i)
  IN Found(closeMatch(URLFilterOf(rulesInfo[i + 1]),
                      URLFilterOf(rulesInfo[j + 1])))

(* The loop of findMatchesForRuleByURLFilter for i from lo to hi *)
RECURSIVE recordMatches(_, _, _, _)
recordMatches(rulesInfo, index, lo, hi) ==
  IF lo > hi THEN rulesInfo
  ELSE IF lo = hi THEN recordMatch(rulesInfo, index, lo)
  ELSE CHOOSE r \in
         {recordMatches(v, index, (lo + hi) \div 2 + 1, hi) :
            v \in {recordMatches(rulesInfo, index, lo, (lo + hi) \div 2)}} : TRUE

findMatchesForRuleByURLFilter(rulesInfo, index, exhaustive) ==
  recordMatches(rulesInfo, index, index + 1,
                SearchLimit(index, Len(rulesInfo), exhaustive) - 1)

(* The weight mergeCandidateRulesByURLFilter sorts the candidates by *)
Weight(ruleInfo) ==
  IF ruleInfo.bestMatches # NoIndex
  THEN Len(MatchesAt(ruleInfo, ruleInfo.bestMatches))
  ELSE IF ruleInfo.multiEditMatch # NoMatch THEN 1 ELSE 0

(* The indexes (0-based) of the candidates, sorted by weight, largest first, *)
(* candidates of equal weight in the order of the group                      *)
candidateOrder(rulesInfo) ==
  LET candidates ==
        {k \in 0..(Len(rulesInfo) - 1) :
           \/ rulesInfo[k + 1].bestMatches # NoIndex
           \/ rulesInfo[k + 1].multiEditMatch # NoMatch}
      Before(a, b) ==
        \/ Weight(rulesInfo[a + 1]) > Weight(rulesInfo[b + 1])
        \/ Weight(rulesInfo[a + 1]) = Weight(rulesInfo[b + 1]) /\ a < b
  IN [p \in 1..Cardinality(candidates) |->
        CHOOSE k \in candidates :
          Cardinality({m \in candidates : Before(m, k)}) = p - 1]

(* The choice of matches without the test of the flags of the targets *)
takeAnyMatches(rulesInfo, ruleInfo) ==
  LET Longer(best, matchesForIndex) ==
        IF Len(matchesForIndex) > Len(best) THEN matchesForIndex ELSE best
      RECURSIVE Reduce(_, _)
      Reduce(best, k) ==
        IF k > Len(ruleInfo.matches) THEN best
        ELSE Reduce(Longer(best, ruleInfo.matches[k]), k + 1)
      Chosen(best) ==
        IF Len(best) = 0 /\ ruleInfo.multiEditMatch # NoMatch
        THEN [best |-> <<ruleInfo.multiEditMatch>>, multiEdit |-> TRUE]
        ELSE [best |-> best, multiEdit |-> FALSE]
  IN Chosen(Reduce(<<>>, 1))

(* The matches of ruleInfo that mergeCandidateRulesByURLFilter merges: the *)
(* result of the reduce and of the fallback to the multiple character edit *)
bestMatchesToMerge(rulesInfo, ruleInfo) ==
  LET Free(match) == /\ ~rulesInfo[match.index + 1].merged
                     /\ ~rulesInfo[match.index + 1].mergedInto
      Filtered(matchesForIndex) ==
        Pick(matchesForIndex,
             [m \in 1..Len(matchesForIndex) |-> Free(matchesForIndex[m])])
      Longer(best, matchesForIndex) ==
        IF Len(matchesForIndex) > Len(best) THEN matchesForIndex ELSE best
      RECURSIVE Reduce(_, _, _)
      Reduce(best, lo, hi) ==
        IF lo > hi THEN best
        ELSE IF lo = hi THEN Longer(best, Filtered(ruleInfo.matches[lo]))
        ELSE CHOOSE r \in {Reduce(v, (lo + hi) \div 2 + 1, hi) :
                             v \in {Reduce(best, lo, (lo + hi) \div 2)}} : TRUE
      Chosen(best) ==
        IF /\ Len(best) = 0
           /\ ruleInfo.multiEditMatch # NoMatch
           /\ Free(ruleInfo.multiEditMatch)
        THEN [best |-> <<ruleInfo.multiEditMatch>>, multiEdit |-> TRUE]
        ELSE [best |-> best, multiEdit |-> FALSE]
  IN Chosen(Reduce(<<>>, 1, Len(ruleInfo.matches)))

(* The url-filter that replaces urlFilter when the matches best are merged *)
mergedURLFilter(rulesInfo, urlFilter, best, multiEdit) ==
  LET editIndex == best[1].edit.index
      editEndIndex == best[1].edit.endIndex
      Sub(from, to) == SubSeq(urlFilter, from + 1, Min(to, Len(urlFilter)))
      Add(acc, character) ==
        IF character = "-"
        THEN [acc EXCEPT !.characters = <<character>> \o @]
        ELSE [acc EXCEPT !.characters = Append(@, character)]
      Step(acc, k) ==
        IF best[k].edit.type = "delete" THEN [acc EXCEPT !.quantifier = <<"?">>]
        ELSE Add(acc,
                 CharAt(URLFilterOf(rulesInfo[best[k].index + 1]), editIndex))
      RECURSIVE Loop(_, _, _)
      Loop(acc, lo, hi) ==
        IF lo > hi THEN acc
        ELSE IF lo = hi THEN Step(acc, lo)
        ELSE CHOOSE r \in {Loop(v, (lo + hi) \div 2 + 1, hi) :
                             v \in {Loop(acc, lo, (lo + hi) \div 2)}} : TRUE
      Single(acc) ==
        IF Len(acc.characters) > 1
        THEN Sub(0, editIndex) \o <<"[">> \o acc.characters \o <<"]">> \o
             acc.quantifier \o Sub(editIndex + 1, Len(urlFilter))
        ELSE Sub(0, editIndex + 1) \o
             acc.quantifier \o Sub(editIndex + 1, Len(urlFilter))
  IN IF multiEdit
     THEN Sub(0, editIndex) \o <<"(">> \o Sub(editIndex, editEndIndex) \o
          <<")", "?">> \o Sub(editEndIndex, Len(urlFilter))
     ELSE Single(Loop([characters |-> <<CharAt(urlFilter, editIndex)>>,
                       quantifier |-> <<>>],
                      1, Len(best)))

(* The body of the loop of mergeCandidateRulesByURLFilter for the candidate *)
(* at index c, once its best matches are chosen                            *)
mergeCandidate(rulesInfo, c, chosen) ==
  IF rulesInfo[c + 1].merged \/ Len(chosen.best) = 0 THEN rulesInfo
  ELSE [k \in 1..Len(rulesInfo) |->
          IF k = c + 1
          THEN [rulesInfo[k] EXCEPT
                  !.rule.trigger["url-filter"] =
                     mergedURLFilter(rulesInfo, URLFilterOf(rulesInfo[c + 1]),
                                     chosen.best, chosen.multiEdit),
                  !.mergedInto = TRUE]
          ELSE IF \E m \in 1..Len(chosen.best) : chosen.best[m].index + 1 = k
          THEN [rulesInfo[k] EXCEPT !.merged = TRUE]
          ELSE rulesInfo[k]]

(* The loop over the candidates order[lo..hi] *)
RECURSIVE mergeCandidates(_, _, _, _)
mergeCandidates(rulesInfo, order, lo, hi) ==
  IF lo > hi THEN rulesInfo
  ELSE IF lo = hi THEN mergeCandidate(rulesInfo, order[lo],
                      bestMatchesToMerge(rulesInfo, rulesInfo[order[lo] + 1]))
  ELSE CHOOSE r \in
         {mergeCandidates(v, order, (lo + hi) \div 2 + 1, hi) :
            v \in {mergeCandidates(rulesInfo, order, lo, (lo + hi) \div 2)}} : TRUE

mergeCandidateRulesByURLFilter(rulesInfo) ==
  mergeCandidates(rulesInfo, candidateOrder(rulesInfo), 1,
                  Len(candidateOrder(rulesInfo)))

(* The first loop of mergeRulesByURLFilter for index from lo to hi *)
RECURSIVE findMatches(_, _, _, _)
findMatches(rulesInfo, exhaustive, lo, hi) ==
  IF lo > hi THEN rulesInfo
  ELSE IF lo = hi THEN findMatchesForRuleByURLFilter(rulesInfo, lo, exhaustive)
  ELSE CHOOSE r \in
         {findMatches(v, exhaustive, (lo + hi) \div 2 + 1, hi) :
            v \in {findMatches(rulesInfo, exhaustive, lo, (lo + hi) \div 2)}} : TRUE

mergeRulesByURLFilter(rulesInfo, exhaustive) ==
  mergeCandidateRulesByURLFilter(
    findMatches(rulesInfo, exhaustive, 0, Len(rulesInfo) - 1))

(* rule.trigger[property] || [] *)
ArrayOf(ruleInfo, property) ==
  IF HasKey(ruleInfo.rule.trigger, property)
  THEN ruleInfo.rule.trigger[property] ELSE <<>>

(* The rules after the first are dropped and their values with them: C21 *)
(* does not hold for it                                                  *)
keepFirstRule(rulesInfo, property) ==
  [i \in 1..Len(rulesInfo) |->
     IF i = 1 \/ Len(rulesInfo) <= 1 THEN rulesInfo[i]
     ELSE [rulesInfo[i] EXCEPT !.merged = TRUE]]

mergeRulesByArrayProperty(rulesInfo, property) ==
  IF Len(rulesInfo) <= 1 THEN rulesInfo
  ELSE
    LET valueSet ==
          Dedup(Flatten([i \in 1..Len(rulesInfo) |->
                           ArrayOf(rulesInfo[i], property)]))
    IN [i \in 1..Len(rulesInfo) |->
          IF i = 1
          THEN [rulesInfo[1] EXCEPT
                  !.rule.trigger =
                     IF Len(valueSet) > 0 THEN SetKey(@, property, valueSet)
                     ELSE @,
                  !.mergedInto = TRUE]
          ELSE [rulesInfo[i] EXCEPT !.merged = TRUE]]

(* The key of the group of a rule: JSON.stringify of the copy without the *)
(* property                                                               *)
groupKey(ruleInfo, property) ==
  [trigger |-> DeleteKey(ruleInfo.rule.trigger, property),
   action |-> ruleInfo.rule.action]

(* The values of the Map in insertion order; a group is the sequence of the *)
(* positions (from 1) in rulesInfo of its rules                             *)
groupRulesByMergeableProperty(rulesInfo, property) ==
  LET Same(groups, g, key) ==
        groupKey(rulesInfo[groups[g][1]], property) = key
      Add(groups, i, key) ==
        IF \E g \in 1..Len(groups) : Same(groups, g, key)
        THEN [groups EXCEPT
                ![CHOOSE g \in 1..Len(groups) : Same(groups, g, key)] =
                   Append(@, i)]
        ELSE Append(groups, <<i>>)
      RECURSIVE Loop(_, _, _)
      Loop(groups, lo, hi) ==
        IF lo > hi THEN groups
        ELSE IF lo = hi
        THEN Add(groups, lo, groupKey(rulesInfo[lo], property))
        ELSE CHOOSE r \in {Loop(v, (lo + hi) \div 2 + 1, hi) :
                             v \in {Loop(groups, lo, (lo + hi) \div 2)}} : TRUE
  IN Loop(<<>>, 1, Len(rulesInfo))

(* rulesInfo with the entries at the positions of group replaced by the *)
(* entries of newInfo                                                   *)
WriteBack(rulesInfo, group, newInfo) ==
  [i \in 1..Len(rulesInfo) |->
     IF \E k \in 1..Len(group) : group[k] = i
     THEN newInfo[CHOOSE k \in 1..Len(group) : group[k] = i]
     ELSE rulesInfo[i]]

(* The first step of mergeRules for one group, whose rules differ in *)
(* url-filter only, once the redundant rules of the group are marked *)
mergeMarkedGroup(rulesInfo, group, marked, exhaustive) ==
  WriteBack(WriteBack(rulesInfo, group, marked),
            Pick(group, [k \in 1..Len(group) |-> ~marked[k].redundant]),
            mergeRulesByURLFilter(Unflagged(marked, TRUE, FALSE), exhaustive))

mergeGroupByURLFilter(rulesInfo, group, exhaustive) ==
  mergeMarkedGroup(rulesInfo, group,
                   markRedundantRules([k \in 1..Len(group) |->
                                         rulesInfo[group[k]]],
                                      exhaustive),
                   exhaustive)

(* The first step of mergeRules for the groups lo to hi *)
RECURSIVE mergeGroupsByURLFilter(_, _, _, _, _)
mergeGroupsByURLFilter(rulesInfo, groups, exhaustive, lo, hi) ==
  IF lo > hi THEN rulesInfo
  ELSE IF lo = hi THEN mergeGroupByURLFilter(rulesInfo, groups[lo], exhaustive)
  ELSE CHOOSE r \in
         {mergeGroupsByURLFilter(v, groups, exhaustive, (lo + hi) \div 2 + 1, hi) :
            v \in {mergeGroupsByURLFilter(rulesInfo, groups, exhaustive, lo, (lo + hi) \div 2)}} : TRUE

(* The second step of mergeRules for one group and one property *)
mergeGroupByArrayProperty(rulesInfo, group, property) ==
  WriteBack(rulesInfo, group,
            mergeRulesByArrayProperty([k \in 1..Len(group) |->
                                         rulesInfo[group[k]]],
                                      property))

RECURSIVE mergeGroupsByArrayProperty(_, _, _, _, _)
mergeGroupsByArrayProperty(rulesInfo, groups, property, lo, hi) ==
  IF lo > hi THEN rulesInfo
  ELSE IF lo = hi THEN mergeGroupByArrayProperty(rulesInfo, groups[lo], property)
  ELSE CHOOSE r \in
         {mergeGroupsByArrayProperty(v, groups, property, (lo + hi) \div 2 + 1, hi) :
            v \in {mergeGroupsByArrayProperty(rulesInfo, groups, property, lo, (lo + hi) \div 2)}} : TRUE

(* One round of the second step of mergeRules *)
mergeByArrayProperty(rulesInfo, property) ==
  CHOOSE r \in
    {Unflagged(mergeGroupsByArrayProperty(rulesInfo, groups, property, 1,
                                          Len(groups)),
               FALSE, TRUE) :
       groups \in {groupRulesByMergeableProperty(rulesInfo, property)}} : TRUE

arrayPropertiesToMergeBy == <<"resource-type", "if-domain">>

(* The second step of mergeRules from the property k on *)
RECURSIVE mergeByArrayProperties(_, _)
mergeByArrayProperties(rulesInfo, k) ==
  IF k > Len(arrayPropertiesToMergeBy) THEN rulesInfo
  ELSE CHOOSE r \in
         {mergeByArrayProperties(merged, k + 1) :
            merged \in {mergeByArrayProperty(rulesInfo,
                                             arrayPropertiesToMergeBy[k])}} :
         TRUE

(* mergeRules on rulesInfo *)
mergeRulesInfo(rulesInfo, exhaustive) ==
  CHOOSE r \in
    {mergeByArrayProperties(Unflagged(merged, TRUE, TRUE), 1) :
       merged \in
         {mergeGroupsByURLFilter(rulesInfo, groups, exhaustive, 1,
                                 Len(groups)) :
            groups \in {groupRulesByMergeableProperty(rulesInfo,
                                                      "url-filter")}}} : TRUE

(* rulesInfo.map(ruleInfo => ruleInfo.rule) *)
rulesOf(rulesInfo) == [i \in 1..Len(rulesInfo) |-> rulesInfo[i].rule]

mergeRules(rules, exhaustive) ==
  CHOOSE r \in
    {rulesOf(mergeRulesInfo(rulesInfo, exhaustive)) :
       rulesInfo \in {[i \in 1..Len(rules) |-> RuleInfo(rules[i])]}} : TRUE

(***************************************************************************)
(* ContentBlockerList                                                      *)
(***************************************************************************)
(* The property names a Map inherits: "name in map" holds for them *)
InheritedKeys ==
  {<<"s", "i", "z", "e">>, <<"h", "a", "s">>, <<"g", "e", "t">>,
   <<"s", "e", "t">>, <<"k", "e", "y", "s">>, <<"c", "l", "e", "a", "r">>,
   <<"d", "e", "l", "e", "t", "e">>, <<"v", "a", "l", "u", "e", "s">>,
   <<"e", "n", "t", "r", "i", "e", "s">>, <<"f", "o", "r", "E", "a", "c", "h">>,
   <<"c", "o", "n", "s", "t", "r", "u", "c", "t", "o", "r">>,
   <<"t", "o", "S", "t", "r", "i", "n", "g">>,
   <<"v", "a", "l", "u", "e", "O", "f">>}

(* selector in elemhideSelectorExceptions; the own properties are the *)
(* domain of the function                                             *)
InExceptions(selector, selectorExceptions) ==
  selector \in DOMAIN selectorExceptions \/ selector \in InheritedKeys

(* NoResult is the undefined that convertElemHideFilter returns *)
NoResult == [matchDomains |-> NULL, selector |-> NULL]

convertElemHideFilter(filter, selectorExceptions) ==
  LET domains == parseDomains(filter.domains, <<>>, <<>>)
  IN IF /\ Len(domains.excluded) = 0
        /\ ~InExceptions(filter.selector, selectorExceptions)
     THEN [matchDomains |-> domains.included, selector |-> filter.selector]
     ELSE NoResult

(* The hostnames of the patterns that have one *)
HostnamesIn(filters) ==
  Flatten([i \in 1..Len(filters) |->
             IF parseFilterRegexpSource(filters[i].regexpSource,
                                        NULL).hostname \in {NULL, <<>>}
             THEN <<>>
             ELSE <<parseFilterRegexpSource(filters[i].regexpSource,
                                            NULL).hostname>>])

(* The hostnames of all the filters that have one, hostname-only or not: *)
(* C17 does not hold for it                                             *)
extractAnyDomains(filters) == Dedup(HostnamesIn(filters))

(* The Set as the sequence of its elements in insertion order *)
extractFilterDomains(filters) ==
  Dedup(Flatten([i \in 1..Len(filters) |->
                   IF parseFilterRegexpSource(filters[i].regexpSource,
                                              NULL).justHostname
                   THEN <<parseFilterRegexpSource(filters[i].regexpSource,
                                                  NULL).hostname>>
                   ELSE <<>>]))

(* group.push(selector) for the group of the key domain; grouped is      *)
(* groupedElemhideFilters as the sequence of its entries in insertion    *)
(* order                                                                 *)
addToGroup(grouped, domain, selector) ==
  IF \E g \in 1..Len(grouped) : grouped[g].key = domain
  THEN [g \in 1..Len(grouped) |->
          IF grouped[g].key = domain
          THEN [grouped[g] EXCEPT !.selectors = Append(@, selector)]
          ELSE grouped[g]]
  ELSE Append(grouped, [key |-> domain, selectors |-> <<selector>>])

(* The loop over result.matchDomains from the index d on *)
RECURSIVE addToGroups(_, _, _)
addToGroups(grouped, result, d) ==
  IF d > Len(result.matchDomains) THEN grouped
  ELSE addToGroups(addToGroup(grouped, result.matchDomains[d],
                              result.selector),
                   result, d + 1)

(* The body of the first loop of generateRules for the result of *)
(* convertElemHideFilter                                         *)
groupElemhideFilter(acc, result) ==
  IF result = NoResult THEN acc
  ELSE IF Len(result.matchDomains) = 0
  THEN [acc EXCEPT !.genericSelectors = Append(@, result.selector)]
  ELSE [acc EXCEPT !.grouped = addToGroups(@, result, 1)]

RECURSIVE groupElemhideRange(_, _, _, _, _)
groupElemhideRange(acc, filters, selectorExceptions, lo, hi) ==
  IF lo > hi THEN acc
  ELSE IF lo = hi THEN groupElemhideFilter(acc,
                            convertElemHideFilter(filters[lo],
                                                  selectorExceptions))
  ELSE CHOOSE r \in
         {groupElemhideRange(v, filters, selectorExceptions, (lo + hi) \div 2 + 1, hi) :
            v \in {groupElemhideRange(acc, filters, selectorExceptions, lo, (lo + hi) \div 2)}} : TRUE

(* The first loop of generateRules: genericSelectors and *)
(* groupedElemhideFilters                                *)
groupElemhideFilters(filters, selectorExceptions) ==
  groupElemhideRange([genericSelectors |-> <<>>, grouped |-> <<>>],
                     filters, selectorExceptions, 1, Len(filters))

(* No hostname of a genericblock exception: C11 does not hold for it *)
noExceptionDomains(this) == <<>>

(* this is the record of the buckets of a ContentBlockerList *)
requestFilterExceptionDomainsOf(this) ==
  Flatten([i \in 1..Len(this.genericblockExceptions) |->
             IF parseFilterRegexpSource(
                  this.genericblockExceptions[i].regexpSource,
                  NULL).hostname \notin {NULL, <<>>}
             THEN <<parseFilterRegexpSource(
                      this.genericblockExceptions[i].regexpSource,
                      NULL).hostname>>
             ELSE <<>>])

(* groupedElemhideFilters.forEach from the entry g on *)
RECURSIVE addGroupedCSSRules(_, _, _, _)
addGroupedCSSRules(rules, grouped, exceptionDomains, g) ==
  IF g > Len(grouped) THEN rules
  ELSE addGroupedCSSRules(addCSSRules(rules, grouped[g].selectors,
                                      grouped[g].key, exceptionDomains),
                          grouped, exceptionDomains, g + 1)

(* cssRules, given the result of the first loop and the hostnames of the *)
(* element hiding exceptions                                             *)
cssRulesOf(this, grouping, elemhideExceptionDomains) ==
  addGroupedCSSRules(
    addCSSRules(<<>>, grouping.genericSelectors, NULL,
                Dedup(extractFilterDomains(this.generichideExceptions) \o
                      elemhideExceptionDomains)),
    Pick(grouping.grouped,
         [g \in 1..Len(grouping.grouped) |->
            ~Includes(elemhideExceptionDomains, grouping.grouped[g].key)]),
    elemhideExceptionDomains, 1)

(* The css rules of generateRules *)
generateCSSRules(this) ==
  cssRulesOf(this,
             groupElemhideFilters(this.elemhideFilters,
                                  this.elemhideSelectorExceptions),
             extractFilterDomains(this.elemhideExceptions))

(* The loops over requestFilters and over requestExceptions *)
RECURSIVE convertFiltersRange(_, _, _, _, _, _)
convertFiltersRange(rules, filters, action, exceptionDomains, lo, hi) ==
  IF lo > hi THEN rules
  ELSE IF lo = hi THEN convertFilterAddRules(rules, filters[lo], action, TRUE,
                                           exceptionDomains, {})
  ELSE CHOOSE r \in
         {convertFiltersRange(v, filters, action, exceptionDomains, (lo + hi) \div 2 + 1, hi) :
            v \in {convertFiltersRange(rules, filters, action, exceptionDomains, lo, (lo + hi) \div 2)}} : TRUE

convertFilters(filters, action, exceptionDomains) ==
  convertFiltersRange(<<>>, filters, action, exceptionDomains, 1, Len(filters))

(* ruleGroups with the groups in the order in which generateRules fills *)
(* them from the buckets of the request filters on: the category order  *)
(* of C1 does not hold for it                                           *)
requestRulesFirst(this) ==
  <<convertFilters(this.requestFilters, "block",
                   requestFilterExceptionDomainsOf(this)),
    convertFilters(this.requestExceptions, "ignore-previous-rules", <<>>),
    generateCSSRules(this),
    <<>>>>

(* generateRules up to the return statement: ruleGroups *)
generateRuleGroups(this) ==
  <<generateCSSRules(this),
    <<>>,
    convertFilters(this.requestFilters, "block",
                   requestFilterExceptionDomainsOf(this)),
    convertFilters(this.requestExceptions, "ignore-previous-rules", <<>>)>>

(* The number of rules above which merge "auto" optimizes *)
autoMergeThreshold == 50000

(* The return statement of generateRules: the groups after the callee of *)
(* each index has run                                                    *)
RECURSIVE mergeRuleGroupsFrom(_, _, _)
mergeRuleGroupsFrom(ruleGroups, merge, index) ==
  IF index > Len(ruleGroups) THEN ruleGroups
  ELSE mergeRuleGroupsFrom(
         IF \/ merge = "all"
            \/ /\ merge = "auto"
               /\ Len(Flatten(ruleGroups)) > autoMergeThreshold
         THEN [ruleGroups EXCEPT ![index] = mergeRules(@, merge = "all")]
         ELSE ruleGroups,
         merge, index + 1)

mergeRuleGroups(ruleGroups, merge) == mergeRuleGroupsFrom(ruleGroups, merge, 1)

(* The list that the promise of generateRules resolves to *)
generateRules(this, merge) ==
  CHOOSE r \in {Flatten(mergeRuleGroups(ruleGroups, merge)) :
                  ruleGroups \in {generateRuleGroups(this)}} : TRUE

RegExpFilterClasses == {"BlockingFilter", "WhitelistFilter"}

(* addFilter after its two return statements: the buckets once the filter *)
(* is pushed                                                             *)
pushFilter(this, filter) ==
  LET whitelist == filter.class = "WhitelistFilter"
      Push(bucket, cond) == IF cond THEN Append(bucket, filter) ELSE bucket
      own == IF filter.selector \in DOMAIN this.elemhideSelectorExceptions
             THEN this.elemhideSelectorExceptions[filter.selector]
             ELSE <<>>
  IN [requestFilters |->
        Push(this.requestFilters, filter.class = "BlockingFilter"),
      requestExceptions |->
        Push(this.requestExceptions,
             whitelist /\ Has(filter.contentType,
                              {"DOCUMENT"} \cup whitelistableRequestTypes)),
      genericblockExceptions |->
        Push(this.genericblockExceptions,
             whitelist /\ Has(filter.contentType, {"GENERICBLOCK"})),
      elemhideExceptions |->
        Push(this.elemhideExceptions,
             whitelist /\ Has(filter.contentType, {"ELEMHIDE"})),
      generichideExceptions |->
        Push(this.generichideExceptions,
             /\ whitelist
             /\ ~Has(filter.contentType, {"ELEMHIDE"})
             /\ Has(filter.contentType, {"GENERICHIDE"})),
      elemhideFilters |->
        Push(this.elemhideFilters, filter.class = "ElemHideFilter"),
      elemhideSelectorExceptions |->
        IF filter.class = "ElemHideException" /\
           filter.selector \notin InheritedKeys
        THEN SetKey(this.elemhideSelectorExceptions, filter.selector,
                    parseDomains(filter.domains, own, <<>>).included)
        ELSE this.elemhideSelectorExceptions]

(* addFilter without its two return statements: C5 does not hold for it *)
pushAnyFilter(this, filter) == pushFilter(this, filter)

(* addFilter: the buckets after the call *)
addFilter(this, filter) ==
  IF filter.sitekeys # NULL THEN this
  ELSE IF filter.class \in RegExpFilterClasses /\ filter.regexpSource = NULL
  THEN this
  ELSE pushFilter(this, filter)

(***************************************************************************)
(* Filters, as Filter.fromText of filterClasses hands them to addFilter    *)
(***************************************************************************)
(* RegExpFilter.prototype.contentType: every request type, named or not *)
defaultContentType ==
  typeMap \ {"CSP", "DOCUMENT", "ELEMHIDE", "POPUP", "GENERICHIDE",
             "GENERICBLOCK"}

(* ActiveFilter.domains: the entry of the key "" is true unless a domain *)
(* is included; the keys are upper case                                  *)
Domains(list) ==
  [default |-> \A i \in 1..Len(list) : ~list[i][2], list |-> list]

RegExpFilter(class, regexpSource, contentType, list) ==
  [class |-> class, regexpSource |-> regexpSource,
   contentType |-> contentType, matchCase |-> FALSE,
   domains |-> Domains(list), thirdParty |-> "null", sitekeys |-> NULL,
   selector |-> NULL]

ElemHideBase(class, list, selector) ==
  [class |-> class, regexpSource |-> NULL, contentType |-> {},
   matchCase |-> FALSE, domains |-> Domains(list), thirdParty |-> "null",
   sitekeys |-> NULL, selector |-> selector]

fooCom == <<"F", "O", "O", ".", "C", "O", "M">>
barFooCom == <<"B", "A", "R", ".">> \o fooCom
wwwFooCom == <<"W", "W", "W", ".">> \o fooCom
barCom == <<"B", "A", "R", ".", "C", "O", "M">>
testCom == <<"T", "E", "S", "T", ".", "C", "O", "M">>
hostExample ==
  <<"|", "|", "e", "x", "a", "m", "p", "l", "e", ".", "c", "o", "m", "^">>

(* /ads$domain=foo.com|~bar.foo.com *)
adsFooFilter ==
  RegExpFilter("BlockingFilter", <<"/", "a", "d", "s">>, defaultContentType,
               <<<<fooCom, TRUE>>, <<barFooCom, FALSE>>>>)

(* /ads$domain=bar.com *)
adsBarFilter ==
  RegExpFilter("BlockingFilter", <<"/", "a", "d", "s">>, defaultContentType,
               <<<<barCom, TRUE>>>>)

(* /adv *)
advFilter ==
  RegExpFilter("BlockingFilter", <<"/", "a", "d", "v">>, defaultContentType,
               <<>>)

(* /adv$domain=~bar.com *)
advExceptBarFilter ==
  RegExpFilter("BlockingFilter", <<"/", "a", "d", "v">>, defaultContentType,
               <<<<barCom, FALSE>>>>)

(* @@||example.com^$document *)
documentException ==
  RegExpFilter("WhitelistFilter", hostExample, {"DOCUMENT"}, <<>>)

(* @@||example.com^$genericblock *)
genericblockException ==
  RegExpFilter("WhitelistFilter", hostExample, {"GENERICBLOCK"}, <<>>)

(* @@||sub.test.com^$elemhide *)
elemhideException ==
  RegExpFilter("WhitelistFilter",
               <<"|", "|", "s", "u", "b", ".", "t", "e", "s", "t", ".", "c",
                 "o", "m", "^">>, {"ELEMHIDE"}, <<>>)

(* @@||example.com^$generichide *)
generichideException ==
  RegExpFilter("WhitelistFilter", hostExample, {"GENERICHIDE"}, <<>>)

(* ##.ad *)
genericHideFilter ==
  ElemHideBase("ElemHideFilter", <<>>, <<".", "a", "d">>)

(* test.com###U+00E9 *)
domainHideFilter ==
  ElemHideBase("ElemHideFilter", <<<<testCom, TRUE>>>>, <<"#", "U+00E9">>)

(* test.com#@#.ad *)
selectorException ==
  ElemHideBase("ElemHideException", <<<<testCom, TRUE>>>>,
               <<".", "a", "d">>)

(* foo$sitekey=bar *)
sitekeyFilter ==
  [RegExpFilter("BlockingFilter", <<"f", "o", "o">>, defaultContentType,
                <<>>)
   EXCEPT !.sitekeys = <<<<"B", "A", "R">>>>]

(* /ad[0-9]/, a regular expression: filterClasses compiles it and keeps *)
(* no regexpSource                                                      *)
regexpLiteralFilter ==
  RegExpFilter("BlockingFilter", NULL, defaultContentType, <<>>)

(* $domain=U+1F408.cat, a filter whose pattern is empty *)
emptyPatternFilter ==
  RegExpFilter("BlockingFilter", <<>>, defaultContentType,
               <<<<<<"U+1F408", ".", "C", "A", "T">>, TRUE>>>>)

(* U+00E9$domain=~U+00C9.com *)
unicodeFilter ==
  RegExpFilter("BlockingFilter", <<"U+00E9">>, defaultContentType,
               <<<<<<"U+00C9", ".", "C", "O", "M">>, FALSE>>>>)

(* @@||U+00E9.com/$document,image *)
unicodeException ==
  RegExpFilter("WhitelistFilter",
               <<"|", "|", "U+00E9", ".", "c", "o", "m", "/">>,
               {"DOCUMENT", "IMAGE"}, <<>>)

(* ||foo.com^ *)
fooFilter ==
  RegExpFilter("BlockingFilter",
               <<"|", "|", "f", "o", "o", ".", "c", "o", "m", "^">>,
               defaultContentType, <<>>)

(* ||foo.com/ads$subdocument,websocket *)
fooAdsFrameFilter ==
  RegExpFilter("BlockingFilter",
               <<"|", "|", "f", "o", "o", ".", "c", "o", "m", "/", "a", "d",
                 "s">>,
               {"SUBDOCUMENT", "WEBSOCKET"}, <<>>)

(* ||foo.com/adv$subdocument,websocket *)
fooAdvFrameFilter ==
  RegExpFilter("BlockingFilter",
               <<"|", "|", "f", "o", "o", ".", "c", "o", "m", "/", "a", "d",
                 "v">>,
               {"SUBDOCUMENT", "WEBSOCKET"}, <<>>)

(* The filter lists that addFilter is fed from *)
filterLists ==
  << <<genericHideFilter, advFilter, documentException, selectorException>>,
     <<adsFooFilter, adsBarFilter, advExceptBarFilter,
       genericblockException>>,
     <<sitekeyFilter, regexpLiteralFilter, emptyPatternFilter,
       domainHideFilter>>,
     <<unicodeFilter, unicodeException, domainHideFilter,
       elemhideException>>,
     <<genericHideFilter, domainHideFilter, generichideException,
       elemhideException>>,
     <<fooFilter, fooAdsFrameFilter, fooAdvFrameFilter,
       genericblockException>> >>

(* No filter: the argument of addFilter before its first call *)
noFilter == ElemHideBase("none", <<>>, NULL)

(* How many calls of addFilter a run makes *)
MaxFilters == 4

(***************************************************************************)
(* The ContentBlockerList as a state machine                               *)
(***************************************************************************)
VARIABLES
  list,                       \* the filter list being converted
  options,                    \* this.options
  requestFilters, requestExceptions, elemhideFilters, elemhideExceptions,
  genericblockExceptions, generichideExceptions, elemhideSelectorExceptions,
  filter,                     \* the argument of the last call of addFilter
  calls,                      \* the number of calls of addFilter
  returned,                   \* generateRules has resolved since then
  rules,                      \* what it resolved to
  group,                      \* the rules handed to a step of the optimizer
  mergeableRulesInfo,         \* their rulesInfo, which the step writes to
  source, target,             \* the arguments of closeMatch
  edit,                       \* what closeMatch returned
  frames,                     \* the calls of async and their progress
  timers,                     \* the calls handed to callLater, in order
  log,                        \* the callees called so far, in order
  now,                        \* Date.now()
  lengths,                    \* the lengths of the ruleGroups
  groupIndex,                 \* the index of the callee to call next
  mergedGroups                \* the indexes whose group mergeRules got

buckets ==
  <<requestFilters, requestExceptions, elemhideFilters, elemhideExceptions,
    genericblockExceptions, generichideExceptions,
    elemhideSelectorExceptions>>

optimizer == <<group, mergeableRulesInfo, source, target, edit>>

scheduler == <<frames, timers, log, now>>

decision == <<lengths, groupIndex, mergedGroups>>

vars ==
  <<list, options, buckets, filter, calls, returned, rules, optimizer,
    scheduler, decision>>

(* No call of async is under way *)
SchedulerIdle ==
  /\ frames = <<>>
  /\ timers = <<>>
  /\ log = <<>>
  /\ now = 0

(* No return statement of generateRules is under way *)
DecisionIdle ==
  /\ lengths = <<>>
  /\ groupIndex = 0
  /\ mergedGroups = {}

(* No step of the optimizer has been called on its own *)
OptimizerIdle ==
  /\ group = <<>>
  /\ mergeableRulesInfo = <<>>
  /\ source = <<>>
  /\ target = <<>>
  /\ edit = NoEdit

(* The object that the methods see as this *)
This ==
  [requestFilters |-> requestFilters,
   requestExceptions |-> requestExceptions,
   elemhideFilters |-> elemhideFilters,
   elemhideExceptions |-> elemhideExceptions,
   genericblockExceptions |-> genericblockExceptions,
   generichideExceptions |-> generichideExceptions,
   elemhideSelectorExceptions |-> elemhideSelectorExceptions]

mergeOptions == {"off", "auto", "all"}

(* new ContentBlockerList(options) *)
Init ==
  /\ list \in {filterLists[l] : l \in DOMAIN filterLists}
  /\ options \in [merge : mergeOptions]
  /\ requestFilters = <<>>
  /\ requestExceptions = <<>>
  /\ elemhideFilters = <<>>
  /\ elemhideExceptions = <<>>
  /\ genericblockExceptions = <<>>
  /\ generichideExceptions = <<>>
  /\ elemhideSelectorExceptions = <<>>
  /\ filter = noFilter
  /\ calls = 0
  /\ returned = FALSE
  /\ rules = <<>>
  /\ OptimizerIdle
  /\ SchedulerIdle
  /\ DecisionIdle

(* list.addFilter(f) *)
AddFilter(f) ==
  /\ calls < MaxFilters
  /\ LET this == addFilter(This, f)
     IN /\ requestFilters' = this.requestFilters
        /\ requestExceptions' = this.requestExceptions
        /\ elemhideFilters' = this.elemhideFilters
        /\ elemhideExceptions' = this.elemhideExceptions
        /\ genericblockExceptions' = this.genericblockExceptions
        /\ generichideExceptions' = this.generichideExceptions
        /\ elemhideSelectorExceptions' = this.elemhideSelectorExceptions
  /\ filter' = f
  /\ calls' = calls + 1
  /\ returned' = FALSE
  /\ rules' = <<>>
  /\ UNCHANGED <<list, options, optimizer>>
  /\ UNCHANGED scheduler
  /\ UNCHANGED decision

(* list.generateRules(), up to the resolution of its promise *)
GenerateRules ==
  /\ ~returned
  /\ rules' = generateRules(This, options.merge)
  /\ returned' = TRUE
  /\ UNCHANGED <<list, options, buckets, filter, calls, optimizer>>
  /\ UNCHANGED scheduler
  /\ UNCHANGED decision

Next ==
  \/ \E i \in DOMAIN list : AddFilter(list[i])
  \/ GenerateRules

Spec == Init /\ [][Next]_vars

(***************************************************************************)
(* convertFilterAddRules for one request filter at a time                  *)
(***************************************************************************)
(* The bits that the content types of the request filters are made of *)
contentBits ==
  {"IMAGE", "SUBDOCUMENT", "DOCUMENT", "WEBSOCKET", "WEBRTC",
   "XMLHTTPREQUEST"}

contentTypes == ((SUBSET contentBits) \ {{}}) \cup {defaultContentType}

(* ads, |ads, ||foo.com^, ||foo.com/ads, http://foo.com/ads, *)
(* |http://foo.com/ads and the empty pattern                 *)
regexpSources ==
  {<<"a", "d", "s">>,
   <<"|", "a", "d", "s">>,
   <<"|", "|", "f", "o", "o", ".", "c", "o", "m", "^">>,
   <<"|", "|", "f", "o", "o", ".", "c", "o", "m", "/", "a", "d", "s">>,
   <<"h", "t", "t", "p", ":", "/", "/", "f", "o", "o", ".", "c", "o", "m", "/", "a", "d", "s">>,
   <<"|", "h", "t", "t", "p", ":", "/", "/", "f", "o", "o", ".", "c", "o", "m", "/", "a", "d", "s">>,
   <<>>}

(* no domain, foo.com, foo.com|~bar.foo.com, foo.com|~www.foo.com, *)
(* bar.com|foo.com|~bar.foo.com and ~bar.com                      *)
domainLists ==
  {<<>>,
   <<<<fooCom, TRUE>>>>,
   <<<<fooCom, TRUE>>, <<barFooCom, FALSE>>>>,
   <<<<fooCom, TRUE>>, <<wwwFooCom, FALSE>>>>,
   <<<<barCom, TRUE>>, <<fooCom, TRUE>>, <<barFooCom, FALSE>>>>,
   <<<<barCom, FALSE>>>>}

requestFilterSet ==
  {RegExpFilter(class, regexpSource, contentType, domains_) :
     class \in RegExpFilterClasses, regexpSource \in regexpSources,
     contentType \in contentTypes, domains_ \in domainLists}

(* @@||sub.foo.com^$genericblock *)
subFooException ==
  RegExpFilter("WhitelistFilter", <<"|", "|", "s", "u", "b", ".", "f", "o", "o", ".", "c", "o", "m", "^">>,
               {"GENERICBLOCK"}, <<>>)

(* The genericblock exceptions added before the filter *)
genericblockLists == {<<>>, <<genericblockException>>, <<subFooException>>}

(* The list after addFilter is called with the genericblock exceptions and *)
(* then with one request filter                                            *)
InitConvert ==
  /\ filter \in requestFilterSet
  /\ genericblockExceptions \in genericblockLists
  /\ list = genericblockExceptions \o <<filter>>
  /\ options = [merge |-> "off"]
  /\ requestFilters =
       IF filter.class = "BlockingFilter" THEN <<filter>> ELSE <<>>
  /\ requestExceptions =
       IF filter.class = "WhitelistFilter" THEN <<filter>> ELSE <<>>
  /\ elemhideFilters = <<>>
  /\ elemhideExceptions = <<>>
  /\ generichideExceptions = <<>>
  /\ elemhideSelectorExceptions = <<>>
  /\ calls = Len(list)
  /\ returned = FALSE
  /\ rules = <<>>
  /\ OptimizerIdle
  /\ SchedulerIdle
  /\ DecisionIdle

(* The body of the loops of generateRules over requestFilters and over *)
(* requestExceptions, for filter                                       *)
Convert ==
  /\ ~returned
  /\ rules' =
       IF filter.class = "WhitelistFilter"
       THEN convertFilterAddRules(<<>>, filter, "ignore-previous-rules",
                                  TRUE, <<>>, {})
       ELSE convertFilterAddRules(<<>>, filter, "block", TRUE,
                                  requestFilterExceptionDomainsOf(This), {})
  /\ returned' = TRUE
  /\ UNCHANGED <<list, options, buckets, filter, calls, optimizer>>
  /\ UNCHANGED scheduler
  /\ UNCHANGED decision

NextConvert == Convert

SpecConvert == InitConvert /\ [][NextConvert]_vars

(***************************************************************************)
(* convertFilterAddRules for patterns in upper and lower case              *)
(***************************************************************************)
(* nothing, |, ||, http://, HTTP:// and a *)
casePrefixes ==
  {<<>>, <<"|">>, <<"|", "|">>, <<"h", "t", "t", "p", ":", "/", "/">>,
   <<"H", "T", "T", "P", ":", "/", "/">>, <<"a">>}

(* nothing, foo.com, FOO.com and U+00E9.com *)
caseHostnames ==
  {<<>>, <<"f", "o", "o", ".", "c", "o", "m">>,
   <<"F", "O", "O", ".", "c", "o", "m">>, <<"U+00E9", ".", "c", "o", "m">>}

(* nothing, ^, /, /ads, /Ads, /U+00E9, /U+00C9, /^, ^1^, /1?2=3, :80/ *)
(* and *                                                              *)
caseTails ==
  {<<>>, <<"^">>, <<"/">>, <<"/", "a", "d", "s">>, <<"/", "A", "d", "s">>,
   <<"/", "U+00E9">>, <<"/", "U+00C9">>, <<"/", "^">>, <<"^", "1", "^">>,
   <<"/", "1", "?", "2", "=", "3">>, <<":", "8", "0", "/">>, <<"*">>}

caseContentTypes ==
  {defaultContentType, {"IMAGE"}, {"WEBRTC"}, {"DOCUMENT", "IMAGE"}}

caseFilterSet ==
  {[RegExpFilter(class, prefix \o hostname \o tail, contentType, <<>>)
      EXCEPT !.matchCase = matchCase] :
     class \in RegExpFilterClasses, prefix \in casePrefixes,
     hostname \in caseHostnames, tail \in caseTails,
     contentType \in caseContentTypes, matchCase \in BOOLEAN}

(* The list after addFilter is called with one request filter *)
InitCase ==
  /\ filter \in caseFilterSet
  /\ list = <<filter>>
  /\ options = [merge |-> "off"]
  /\ requestFilters =
       IF filter.class = "BlockingFilter" THEN <<filter>> ELSE <<>>
  /\ requestExceptions =
       IF filter.class = "WhitelistFilter" THEN <<filter>> ELSE <<>>
  /\ genericblockExceptions = <<>>
  /\ elemhideFilters = <<>>
  /\ elemhideExceptions = <<>>
  /\ generichideExceptions = <<>>
  /\ elemhideSelectorExceptions = <<>>
  /\ calls = 1
  /\ returned = FALSE
  /\ rules = <<>>
  /\ OptimizerIdle
  /\ SchedulerIdle
  /\ DecisionIdle

NextCase == Convert

SpecCase == InitCase /\ [][NextCase]_vars

(***************************************************************************)
(* generateRules for long lists of element hiding filters                  *)
(***************************************************************************)
(* ##.ad, ##.a, .b and ###id *)
hideFilters ==
  {ElemHideBase("ElemHideFilter", <<>>, <<".", "a", "d">>),
   ElemHideBase("ElemHideFilter", <<>>, <<".", "a", ",", " ", ".", "b">>),
   ElemHideBase("ElemHideFilter", <<>>, <<"#", "i", "d">>)}

(* The lists begin with up to MaxRun filters, or with selectorLimit - 1 *)
(* of them, and go on with up to MaxTail filters                        *)
MaxRun == 3

MaxTail == 2

runLengths == (0..MaxRun) \cup {selectorLimit - 1}

(* The list after addFilter is called run times with first and tail times *)
(* with second                                                            *)
InitCSS ==
  /\ \E run \in runLengths, tail \in 0..MaxTail :
       \E first \in hideFilters, second \in hideFilters :
         /\ elemhideFilters =
              [i \in 1..(run + tail) |-> IF i <= run THEN first ELSE second]
         /\ filter = IF tail > 0 THEN second
                     ELSE IF run > 0 THEN first ELSE noFilter
  /\ list = elemhideFilters
  /\ options = [merge |-> "off"]
  /\ requestFilters = <<>>
  /\ requestExceptions = <<>>
  /\ elemhideExceptions = <<>>
  /\ genericblockExceptions = <<>>
  /\ generichideExceptions = <<>>
  /\ elemhideSelectorExceptions = <<>>
  /\ calls = Len(elemhideFilters)
  /\ returned = FALSE
  /\ rules = <<>>
  /\ OptimizerIdle
  /\ SchedulerIdle
  /\ DecisionIdle

NextCSS == GenerateRules

SpecCSS == InitCSS /\ [][NextCSS]_vars

(***************************************************************************)
(* generateRules for one element hiding filter, for every short selector   *)
(***************************************************************************)
(* The characters that the selectors are made of *)
selectorCharacters == {"#", "a", "\"", "'", "\\", ",", "U+00E9"}

(* The longest selector *)
MaxSelector == 4

selectorSet ==
  UNION {[1..n -> selectorCharacters] : n \in 1..MaxSelector}

(* The list after addFilter is called with ##selector *)
InitSelector ==
  /\ \E selector \in selectorSet :
       filter = ElemHideBase("ElemHideFilter", <<>>, selector)
  /\ list = <<filter>>
  /\ options = [merge |-> "off"]
  /\ elemhideFilters = <<filter>>
  /\ requestFilters = <<>>
  /\ requestExceptions = <<>>
  /\ elemhideExceptions = <<>>
  /\ genericblockExceptions = <<>>
  /\ generichideExceptions = <<>>
  /\ elemhideSelectorExceptions = <<>>
  /\ calls = 1
  /\ returned = FALSE
  /\ rules = <<>>
  /\ OptimizerIdle
  /\ SchedulerIdle
  /\ DecisionIdle

NextSelector == GenerateRules

SpecSelector == InitSelector /\ [][NextSelector]_vars

(***************************************************************************)
(* addFilter and generateRules for lists of element hiding filters and of  *)
(* their exceptions                                                        *)
(***************************************************************************)
(* test.com,foo.com##.b *)
twoDomainHideFilter ==
  ElemHideBase("ElemHideFilter", <<<<testCom, TRUE>>, <<fooCom, TRUE>>>>,
               <<".", "b">>)

(* ~test.com##.ad *)
exceptTestHideFilter ==
  ElemHideBase("ElemHideFilter", <<<<testCom, FALSE>>>>, <<".", "a", "d">>)

(* ##set *)
setHideFilter == ElemHideBase("ElemHideFilter", <<>>, <<"s", "e", "t">>)

(* @@||test.com^$elemhide *)
testElemhideException ==
  RegExpFilter("WhitelistFilter",
               <<"|", "|", "t", "e", "s", "t", ".", "c", "o", "m", "^">>,
               {"ELEMHIDE"}, <<>>)

(* @@||test.com/ads$elemhide *)
pathElemhideException ==
  RegExpFilter("WhitelistFilter",
               <<"|", "|", "t", "e", "s", "t", ".", "c", "o", "m", "/", "a",
                 "d", "s">>,
               {"ELEMHIDE"}, <<>>)

hideLists ==
  << <<genericHideFilter, twoDomainHideFilter, testElemhideException,
       selectorException>>,
     <<domainHideFilter, exceptTestHideFilter, elemhideException,
       testElemhideException>>,
     <<genericHideFilter, twoDomainHideFilter, generichideException,
       elemhideException>>,
     <<setHideFilter, domainHideFilter, pathElemhideException,
       generichideException>>,
     <<genericHideFilter, domainHideFilter, pathElemhideException,
       generichideException>> >>

(* new ContentBlockerList(options), with the list that addFilter is fed *)
(* from                                                                 *)
InitHide ==
  /\ list \in {hideLists[l] : l \in DOMAIN hideLists}
  /\ options \in [merge : mergeOptions]
  /\ requestFilters = <<>>
  /\ requestExceptions = <<>>
  /\ elemhideFilters = <<>>
  /\ elemhideExceptions = <<>>
  /\ genericblockExceptions = <<>>
  /\ generichideExceptions = <<>>
  /\ elemhideSelectorExceptions = <<>>
  /\ filter = noFilter
  /\ calls = 0
  /\ returned = FALSE
  /\ rules = <<>>
  /\ OptimizerIdle
  /\ SchedulerIdle
  /\ DecisionIdle

NextHide ==
  \/ \E i \in DOMAIN list : AddFilter(list[i])
  \/ GenerateRules

SpecHide == InitHide /\ [][NextHide]_vars

(***************************************************************************)
(* eliminateRedundantRulesByURLFilter for one group of rules that differ   *)
(* in url-filter only                                                      *)
(***************************************************************************)
urlFilterCharacters == {"a", "d"}

urlFilterLengths == 1..3

MaxGroup == 3

urlFilterSet ==
  UNION {[1..n -> urlFilterCharacters] : n \in urlFilterLengths}

(* A blocking rule with nothing but its url-filter *)
blockRule(urlFilter) ==
  [trigger |-> ("url-filter" :> urlFilter), action |-> [type |-> "block"]]

(* The group of the rules with the url-filters of g *)
blockRules(g) == [i \in 1..Len(g) |-> blockRule(g[i])]

InitRedundant ==
  /\ list = <<>>
  /\ options \in [merge : {"all", "auto"}]
  /\ requestFilters = <<>>
  /\ requestExceptions = <<>>
  /\ elemhideFilters = <<>>
  /\ elemhideExceptions = <<>>
  /\ genericblockExceptions = <<>>
  /\ generichideExceptions = <<>>
  /\ elemhideSelectorExceptions = <<>>
  /\ filter = noFilter
  /\ calls = 0
  /\ returned = FALSE
  /\ rules = <<>>
  /\ \E n \in 1..MaxGroup :
       \E g \in [1..n -> urlFilterSet] : group = blockRules(g)
  /\ mergeableRulesInfo = <<>>
  /\ source = <<>>
  /\ target = <<>>
  /\ edit = NoEdit
  /\ SchedulerIdle
  /\ DecisionIdle

(* The first step of mergeRules for the group *)
EliminateRedundant ==
  /\ ~returned
  /\ rules' =
       rulesOf(eliminateRedundantRulesByURLFilter(
                 [i \in 1..Len(group) |-> RuleInfo(group[i])],
                 options.merge = "all"))
  /\ returned' = TRUE
  /\ UNCHANGED <<list, options, buckets, filter, calls, optimizer>>
  /\ UNCHANGED scheduler
  /\ UNCHANGED decision

NextRedundant == EliminateRedundant

SpecRedundant == InitRedundant /\ [][NextRedundant]_vars

(***************************************************************************)
(* closeMatch for two strings                                              *)
(***************************************************************************)
closeMatchCharacters == {"a", "b", "."}

MaxString == 3

closeMatchStrings ==
  UNION {[1..n -> closeMatchCharacters] : n \in 0..MaxString}

InitCloseMatch ==
  /\ list = <<>>
  /\ options = [merge |-> "all"]
  /\ requestFilters = <<>>
  /\ requestExceptions = <<>>
  /\ elemhideFilters = <<>>
  /\ elemhideExceptions = <<>>
  /\ genericblockExceptions = <<>>
  /\ generichideExceptions = <<>>
  /\ elemhideSelectorExceptions = <<>>
  /\ filter = noFilter
  /\ calls = 0
  /\ returned = FALSE
  /\ rules = <<>>
  /\ group = <<>>
  /\ mergeableRulesInfo = <<>>
  /\ source \in closeMatchStrings
  /\ target \in closeMatchStrings
  /\ edit = NoEdit
  /\ SchedulerIdle
  /\ DecisionIdle

(* closeMatch(source, target) *)
CloseMatch ==
  /\ ~returned
  /\ edit' = closeMatch(source, target)
  /\ returned' = TRUE
  /\ UNCHANGED <<list, options, buckets, filter, calls, rules, group,
                 mergeableRulesInfo, source, target>>
  /\ UNCHANGED scheduler
  /\ UNCHANGED decision

NextCloseMatch == CloseMatch

SpecCloseMatch == InitCloseMatch /\ [][NextCloseMatch]_vars

(***************************************************************************)
(* mergeRulesByURLFilter for one group of rules that differ in url-filter  *)
(* only and that eliminateRedundantRulesByURLFilter has been through       *)
(***************************************************************************)
mergeCharacters == {"a", "-"}

mergeLengths == 1..3

(* The url-filters of the group without what they all start with: strings *)
(* of mergeCharacters, with "$" for a pattern that ends in "|"            *)
mergeURLFilters ==
  UNION {[1..n -> mergeCharacters] : n \in mergeLengths} \cup
  {Append(u, "$") :
     u \in UNION {[1..n -> mergeCharacters] : n \in {1, 2}}}

MaxMerge == 3

(* No url-filter of g starts with another one *)
HasNoRedundant(g) ==
  \A i, j \in 1..Len(g) :
    i # j => ~(Len(g[i]) <= Len(g[j]) /\ SubSeq(g[j], 1, Len(g[i])) = g[i])

InitMerge ==
  /\ list = <<>>
  /\ options = [merge |-> "all"]
  /\ requestFilters = <<>>
  /\ requestExceptions = <<>>
  /\ elemhideFilters = <<>>
  /\ elemhideExceptions = <<>>
  /\ genericblockExceptions = <<>>
  /\ generichideExceptions = <<>>
  /\ elemhideSelectorExceptions = <<>>
  /\ filter = noFilter
  /\ calls = 0
  /\ returned = FALSE
  /\ rules = <<>>
  /\ \E n \in 1..MaxMerge :
       \E g \in [1..n -> mergeURLFilters] :
         HasNoRedundant(g) /\ group = blockRules(g)
  /\ mergeableRulesInfo = <<>>
  /\ source = <<>>
  /\ target = <<>>
  /\ edit = NoEdit
  /\ SchedulerIdle
  /\ DecisionIdle

(* mergeRulesByURLFilter for the group, and the filter of mergeRules that *)
(* follows                                                                *)
MergeByURLFilter ==
  /\ ~returned
  /\ mergeableRulesInfo' =
       mergeRulesByURLFilter([i \in 1..Len(group) |-> RuleInfo(group[i])],
                             options.merge = "all")
  /\ rules' = rulesOf(Unflagged(mergeableRulesInfo', TRUE, TRUE))
  /\ returned' = TRUE
  /\ UNCHANGED <<list, options, buckets, filter, calls, group, source,
                 target, edit>>
  /\ UNCHANGED scheduler
  /\ UNCHANGED decision

NextMerge == MergeByURLFilter

SpecMerge == InitMerge /\ [][NextMerge]_vars

(***************************************************************************)
(* mergeRules for rules that differ in resource-type and if-domain         *)
(***************************************************************************)
arrayResourceTypes ==
  {<<>>, <<<<"image">>>>, <<<<"script">>, <<"image">>>>}

arrayIfDomains ==
  {<<>>, <<<<"*", "f", "o", "o">>>>, <<<<"*", "b", "a", "r">>>>}

(* A block rule; an empty resourceTypes or ifDomains is a trigger without *)
(* the property                                                           *)
arrayRule(urlFilter, resourceTypes, ifDomains) ==
  [trigger |->
     (IF Len(ifDomains) > 0 THEN "if-domain" :> ifDomains ELSE <<>>) @@
     (IF Len(resourceTypes) > 0 THEN "resource-type" :> resourceTypes
      ELSE <<>>) @@
     ("url-filter" :> urlFilter),
   action |-> [type |-> "block"]]

(* The rules for the url-filter a, and rules for another one that is not *)
(* close to it                                                           *)
arrayRules ==
  {arrayRule(<<"a">>, r, d) :
     r \in arrayResourceTypes, d \in arrayIfDomains} \cup
  {arrayRule(<<"b", "b">>, <<<<"image">>>>, d) :
     d \in {<<>>, <<<<"*", "f", "o", "o">>>>}}

(* A category of rules, no two of them alike *)
InitArrays ==
  /\ list = <<>>
  /\ options = [merge |-> "all"]
  /\ requestFilters = <<>>
  /\ requestExceptions = <<>>
  /\ elemhideFilters = <<>>
  /\ elemhideExceptions = <<>>
  /\ genericblockExceptions = <<>>
  /\ generichideExceptions = <<>>
  /\ elemhideSelectorExceptions = <<>>
  /\ filter = noFilter
  /\ calls = 0
  /\ returned = FALSE
  /\ rules = <<>>
  /\ \E n \in 1..MaxGroup :
       \E g \in [1..n -> arrayRules] :
         /\ \A i, j \in 1..n : i # j => g[i] # g[j]
         /\ group = g
  /\ mergeableRulesInfo = <<>>
  /\ source = <<>>
  /\ target = <<>>
  /\ edit = NoEdit
  /\ SchedulerIdle
  /\ DecisionIdle

(* mergeRules(group, true) *)
MergeRules ==
  /\ ~returned
  /\ rules' = mergeRules(group, options.merge = "all")
  /\ returned' = TRUE
  /\ UNCHANGED <<list, options, buckets, filter, calls, optimizer>>
  /\ UNCHANGED scheduler
  /\ UNCHANGED decision

NextArrays == MergeRules

SpecArrays == InitArrays /\ [][NextArrays]_vars

(***************************************************************************)
(* Claims about addFilter and generateRules                                *)
(***************************************************************************)
categoryRank(rule) ==
  CASE rule.action.type = "css-display-none" -> 1
    [] rule.action.type = "block" -> 2
    [] rule.action.type = "ignore-previous-rules" -> 3

actionTypesOf(list_) == {list_[i].action.type : i \in 1..Len(list_)}

(* C1: for every sequence of addFilter calls and every merge option, the   *)
(* list that generateRules resolves to has all css-display-none rules      *)
(* first, then all block rules, then all ignore-previous-rules rules.      *)
C1_CategoryOrder ==
  returned =>
    \A i \in 1..Len(rules) : \A j \in i..Len(rules) :
      categoryRank(rules[i]) <= categoryRank(rules[j])

(* The three categories are in the list, and the filter added last is an *)
(* element hiding filter, added after request filters.                   *)
C1_Witness ==
  /\ returned
  /\ options.merge = "all"
  /\ filter.class = "ElemHideFilter"
  /\ Len(requestFilters) > 0
  /\ actionTypesOf(rules) =
       {"css-display-none", "block", "ignore-previous-rules"}

(* C2: in every rule of the list returned by generateRules, for every     *)
(* merge option, at most one of trigger["if-domain"] and                  *)
(* trigger["unless-domain"] is present, also after the if-domain merge of *)
(* the optimizer.                                                         *)
C2_DomainsExclusive ==
  returned =>
    \A i \in 1..Len(rules) :
      ~ (HasKey(rules[i].trigger, "if-domain") /\
         HasKey(rules[i].trigger, "unless-domain"))

(* The rules of /ads$domain=foo.com|~bar.foo.com and /ads$domain=bar.com *)
(* are merged into one rule by their if-domain lists.                    *)
C2_Witness ==
  /\ returned
  /\ options.merge = "all"
  /\ Len(requestFilters) >= 2
  /\ \E i \in 1..Len(rules) :
       /\ HasKey(rules[i].trigger, "if-domain")
       /\ Includes(rules[i].trigger["if-domain"],
                   <<"f", "o", "o", ".", "c", "o", "m">>)
       /\ Includes(rules[i].trigger["if-domain"],
                   <<"*", "b", "a", "r", ".", "c", "o", "m">>)

IsAsciiString(s) == \A i \in 1..Len(s) : IsAscii(s[i])

IsAsciiList(trigger, key) ==
  HasKey(trigger, key) =>
    \A k \in 1..Len(trigger[key]) : IsAsciiString(trigger[key][k])

TriggerIsAscii(trigger) ==
  /\ IsAsciiString(trigger["url-filter"])
  /\ IsAsciiList(trigger, "if-domain")
  /\ IsAsciiList(trigger, "unless-domain")
  /\ IsAsciiList(trigger, "unless-top-url")

IsDropped(f) ==
  \/ f.sitekeys # NULL
  \/ f.class \in RegExpFilterClasses /\ f.regexpSource = NULL

(* C5, as it holds: addFilter called with a filter that has sitekeys, or *)
(* with a blocking/whitelist filter that has no regexpSource (a regular  *)
(* expression filter), leaves all of the buckets unchanged.              *)
C5_DroppedFilters ==
  [][(calls' = calls + 1 /\ IsDropped(filter')) => buckets' = buckets]_vars

(* C5, as it is stated: addFilter called with a filter that has sitekeys, *)
(* or with a blocking/whitelist filter whose pattern is empty, leaves all *)
(* of the buckets unchanged.                                              *)
C5_EmptyPatternDropped ==
  [][(/\ calls' = calls + 1
      /\ \/ filter'.sitekeys # NULL
         \/ /\ filter'.class \in RegExpFilterClasses
            /\ filter'.regexpSource = <<>>)
     => buckets' = buckets]_vars

(* addFilter was called with foo$sitekey=bar and then with a regular *)
(* expression filter, and no bucket has a filter.                    *)
C5_Witness ==
  /\ calls = 2
  /\ filter = regexpLiteralFilter
  /\ \A b \in 1..6 : buckets[b] = <<>>
  /\ DOMAIN elemhideSelectorExceptions = {}

(***************************************************************************)
(* Claims about convertFilterAddRules                                      *)
(***************************************************************************)
(* The rule has no resource-type: it is the rule pushed for a whitelisted *)
(* hostname                                                               *)
HasResourceType(rule) == HasKey(rule.trigger, "resource-type")

resourceTypeOrder ==
  <<"image", "style-sheet", "script", "font", "media", "popup", "raw",
    "document">>

resourceTypeBits(name) ==
  CASE name = "image" -> {"IMAGE"}
    [] name = "style-sheet" -> {"STYLESHEET"}
    [] name = "script" -> {"SCRIPT"}
    [] name = "font" -> {"FONT"}
    [] name = "media" -> {"MEDIA", "OBJECT"}
    [] name = "popup" -> {"POPUP"}
    [] name = "raw" -> {"XMLHTTPREQUEST", "OBJECT_SUBREQUEST", "PING",
                        "OTHER", "WEBSOCKET", "WEBRTC"}
    [] name = "document" -> {"SUBDOCUMENT"}

HTTPRawTypes == {"XMLHTTPREQUEST", "OBJECT_SUBREQUEST", "PING", "OTHER"}

(* The pattern begins with a single "|", the anchor at the start *)
IsAnchored(text) ==
  /\ StartsWith(text, <<"|">>)
  /\ ~StartsWith(text, <<"|", "|">>)

HasNoHostname(f) ==
  parseFilterRegexpSource(f.regexpSource, NULL).hostname \in {NULL, <<>>}

IsHostnameOnly(f) == parseFilterRegexpSource(f.regexpSource, NULL).justHostname

(* The resource types of contentType in the fixed order, without *)
(* "document" for a blocking filter whose pattern has no hostname *)
Projection(f, contentType) ==
  Pick(resourceTypeOrder,
       [k \in 1..Len(resourceTypeOrder) |->
          /\ contentType \cap resourceTypeBits(resourceTypeOrder[k]) # {}
          /\ ~ (/\ resourceTypeOrder[k] = "document"
                /\ f.class = "BlockingFilter"
                /\ HasNoHostname(f))])

(* WEBSOCKET or WEBRTC together with other types, but not all three of *)
(* WEBSOCKET, WEBRTC and an HTTP raw type                              *)
IsSplitType(contentType) ==
  /\ contentType \cap {"WEBSOCKET", "WEBRTC"} # {}
  /\ Cardinality(contentType) > 1
  /\ ~ (/\ "WEBSOCKET" \in contentType
        /\ "WEBRTC" \in contentType
        /\ contentType \cap HTTPRawTypes # {})

RemainingBits(contentType) == contentType \ {"WEBSOCKET", "WEBRTC"}

(* The content types that the content type of a filter is split into *)
Parts(contentType) ==
  IF IsSplitType(contentType)
  THEN {contentType \cap {"WEBSOCKET"}, contentType \cap {"WEBRTC"},
        RemainingBits(contentType)} \ {{}}
  ELSE {contentType}

ResourceTypesProjected ==
  \A i \in 1..Len(rules) :
    HasResourceType(rules[i]) =>
      /\ rules[i].trigger["resource-type"] # <<>>
      /\ \E part \in Parts(filter.contentType) :
           rules[i].trigger["resource-type"] = Projection(filter, part)

NoResourceTypeLeft ==
  \A part \in Parts(filter.contentType) : Projection(filter, part) = <<>>

(* C6, as it holds: for every block or ignore-previous-rules rule emitted  *)
(* with a resource-type, the list is non-empty and equals the projection   *)
(* of the (possibly split) content type in the fixed order image,          *)
(* style-sheet, script, font, media, popup, raw, document, with "document" *)
(* removed when the filter is a blocking filter whose pattern has no       *)
(* hostname; when that list is empty no rule with a resource-type is       *)
(* emitted for the filter, only the rule of a whitelisted hostname.        *)
C6_ResourceTypes ==
  returned =>
    /\ ResourceTypesProjected
    /\ NoResourceTypeLeft =>
         \A i \in 1..Len(rules) :
           /\ ~HasResourceType(rules[i])
           /\ filter.class = "WhitelistFilter"
           /\ "DOCUMENT" \in filter.contentType
           /\ IsHostnameOnly(filter)

(* C6, as it is stated: when that list is empty no rule is emitted for the *)
(* filter.                                                                 *)
C6_NoRuleWithoutResourceTypes ==
  returned =>
    /\ ResourceTypesProjected
    /\ NoResourceTypeLeft => rules = <<>>

(* ads$image,subdocument,websocket: the websocket rule has "raw" and the *)
(* other rule has "image" without "document".                            *)
C6_Witness ==
  /\ returned
  /\ filter.class = "BlockingFilter"
  /\ filter.contentType = {"IMAGE", "SUBDOCUMENT", "WEBSOCKET"}
  /\ HasNoHostname(filter)
  /\ Len(rules) = 2
  /\ rules[1].trigger["resource-type"] = <<"raw">>
  /\ rules[2].trigger["resource-type"] = <<"image">>

URLFilterStartsWith(rule, prefix) ==
  StartsWith(rule.trigger["url-filter"], prefix)

IsWebSocketRule(rule) ==
  /\ URLFilterStartsWith(rule, <<"^", "w", "s", "s", "?", ":", "/", "/">>)
  /\ rule.trigger["resource-type"] = <<"raw">>

IsStunRule(rule) ==
  /\ URLFilterStartsWith(rule, <<"^", "s", "t", "u", "n", "s", "?", ":">>)
  /\ rule.trigger["resource-type"] = <<"raw">>

IsTurnRule(rule) ==
  /\ URLFilterStartsWith(rule, <<"^", "t", "u", "r", "n", "s", "?", ":">>)
  /\ rule.trigger["resource-type"] = <<"raw">>

(* The url-filter is anchored at an http or https URL *)
CanMatchHTTP(rule) ==
  \/ URLFilterStartsWith(rule, <<"^", "h", "t", "t", "p", "s", "?", ":", "/", "/">>)
  \/ URLFilterStartsWith(rule, <<"^", "h", "t", "t", "p", ":", "/", "/">>)
  \/ URLFilterStartsWith(rule, <<"^", "h", "t", "t", "p", "s", ":", "/", "/">>)
  \/ URLFilterStartsWith(rule, <<"^", "[", "^", ":", "]", "+", ":", "(", "/", "/", ")", "?">>)

IsHTTPRule(rule) ==
  /\ CanMatchHTTP(rule)
  /\ rule.trigger["resource-type"] =
       Projection(filter, RemainingBits(filter.contentType))

(* no emitted rule whose url-filter can match an http(s) URL carries "raw" *)
(* unless the filter requested an HTTP raw type                            *)
NoRawForHTTP ==
  \A i \in 1..Len(rules) :
    (/\ HasResourceType(rules[i])
     /\ Includes(rules[i].trigger["resource-type"], "raw")
     /\ CanMatchHTTP(rules[i]))
    => filter.contentType \cap HTTPRawTypes # {}

SchemeFamilies ==
  /\ "WEBSOCKET" \in filter.contentType =>
       \E i \in 1..Len(rules) : IsWebSocketRule(rules[i])
  /\ "WEBRTC" \in filter.contentType =>
       /\ \E i \in 1..Len(rules) : IsStunRule(rules[i])
       /\ \E i \in 1..Len(rules) : IsTurnRule(rules[i])
  /\ \A i \in 1..Len(rules) :
       HasResourceType(rules[i]) =>
         \/ "WEBSOCKET" \in filter.contentType /\ IsWebSocketRule(rules[i])
         \/ "WEBRTC" \in filter.contentType /\ IsStunRule(rules[i])
         \/ "WEBRTC" \in filter.contentType /\ IsTurnRule(rules[i])
         \/ IsHTTPRule(rules[i])

(* C7: for any filter whose content type contains WEBSOCKET or WEBRTC      *)
(* together with other types but not all three of WEBSOCKET, WEBRTC and an *)
(* HTTP raw type, convertFilterAddRules emits separate rules per scheme    *)
(* family: a ^wss?:// rule with ["raw"] if WEBSOCKET is set, ^stuns?: and  *)
(* ^turns?: rules with ["raw"] if WEBRTC is set, and ^https?:// rules with *)
(* only the resource types of the remaining bits; hence no emitted rule    *)
(* whose url-filter can match an http(s) URL carries "raw" unless the      *)
(* filter requested an HTTP raw type.                                      *)
C7_SchemeFamilies ==
  (returned /\ IsSplitType(filter.contentType)) =>
    (SchemeFamilies /\ NoRawForHTTP)

(* The conclusion of C7 by itself does not hold either: the websocket rule *)
(* of |http://foo.com/ads$websocket,image is anchored at http://foo.com    *)
C7_NoRawForHTTP ==
  (returned /\ IsSplitType(filter.contentType)) => NoRawForHTTP

(* C7 holds for the patterns that do not begin with a single "|" *)
C7_Unanchored ==
  (/\ returned
   /\ IsSplitType(filter.contentType)
   /\ ~IsAnchored(filter.regexpSource)) =>
    (SchemeFamilies /\ NoRawForHTTP)

(* The rules with a resource-type: all but the rule of a whitelisted *)
(* hostname                                                          *)
RequestRules == Pick(rules, [i \in 1..Len(rules) |-> HasResourceType(rules[i])])

(* The pattern has a literal URL scheme *)
ContainsScheme(text) ==
  \E k \in 1..Len(text) : SubSeq(text, k, Min(k + 2, Len(text))) = <<":", "/", "/">>

WithoutURLFilter(trigger) ==
  [key \in (DOMAIN trigger) \ {"url-filter"} |-> trigger[key]]

RemainderOf(rule, scheme) ==
  SubSeq(rule.trigger["url-filter"], Len(scheme) + 2,
         Len(rule.trigger["url-filter"]))

(* One rule per scheme in the order of schemes, the same but for the *)
(* scheme at the start of the url-filter                             *)
OneRulePerScheme(list_, schemes) ==
  /\ Len(list_) = Len(schemes)
  /\ \A k \in 1..Len(list_) :
       /\ URLFilterStartsWith(list_[k], <<"^">> \o schemes[k])
       /\ RemainderOf(list_[k], schemes[k]) = RemainderOf(list_[1], schemes[1])
       /\ WithoutURLFilter(list_[k].trigger) =
            WithoutURLFilter(list_[1].trigger)
       /\ list_[k].action = list_[1].action

(* C8, as it holds: for a filter whose content type is not split and has a *)
(* non-empty resource-type list, and whose lowered pattern neither starts  *)
(* with the anchor "^" from a leading "|" nor contains a literal URL       *)
(* scheme, convertFilterAddRules emits, besides the rule of a whitelisted  *)
(* hostname, exactly one rule per scheme pattern returned by getURLSchemes *)
(* for its content type, in that order; the rules are identical except     *)
(* that each url-filter is "^" + that scheme + the same remainder. A       *)
(* pattern anchored with a leading single "|" yields exactly one such rule *)
(* under the same conditions.                                              *)
C8_RulePerScheme ==
  (/\ returned
   /\ ~IsSplitType(filter.contentType)
   /\ Projection(filter, filter.contentType) # <<>>) =>
    /\ (~IsAnchored(filter.regexpSource) /\
        ~ContainsScheme(filter.regexpSource)) =>
         OneRulePerScheme(RequestRules, getURLSchemes(filter.contentType))
    /\ IsAnchored(filter.regexpSource) => Len(RequestRules) = 1

(* C8, as it is stated: exactly one rule per scheme pattern returned by *)
(* getURLSchemes for the content type of the filter, whatever the       *)
(* content type, and exactly one rule for an anchored pattern.          *)
C8_RulePerSchemeAlways ==
  returned =>
    /\ (~IsAnchored(filter.regexpSource) /\
        ~ContainsScheme(filter.regexpSource)) =>
         OneRulePerScheme(rules, getURLSchemes(filter.contentType))
    /\ IsAnchored(filter.regexpSource) => Len(rules) = 1

(* ads$webrtc: two rules, ^stuns?:.*ads and ^turns?:.*ads *)
C8_Witness ==
  /\ returned
  /\ filter.contentType = {"WEBRTC"}
  /\ filter.regexpSource = <<"a", "d", "s">>
  /\ Len(rules) = 2
  /\ rules[1].trigger["url-filter"] = <<"^", "s", "t", "u", "n", "s", "?", ":", ".", "*", "a", "d", "s">>
  /\ rules[2].trigger["url-filter"] = <<"^", "t", "u", "r", "n", "s", "?", ":", ".", "*", "a", "d", "s">>

(* The catch-all rule of a filter of the hostname foo.com *)
fooCatchAll ==
  [trigger |-> ("url-filter" :> <<".", "*">>) @@
               ("if-domain" :> << <<"*", "f", "o", "o", ".", "c", "o", "m">> >>),
   action |-> [type |-> "ignore-previous-rules"]]

IsStrictSubdomain(name, d) ==
  /\ Len(name) > Len(d) + 1
  /\ SliceEnd(name, Len(d) + 1) = <<".">> \o d

IncludedOf(f) == parseDomains(f.domains, <<>>, <<>>).included

(* The filter's own excluded domains plus, for a blocking filter, the *)
(* genericblock exception hostnames                                   *)
ExcludedOf(f) ==
  parseDomains(f.domains, <<>>, <<>>).excluded \o
  (IF f.class = "BlockingFilter" THEN requestFilterExceptionDomainsOf(This)
   ELSE <<>>)

ExpectedIfDomain(f, d, excluded) ==
  IF /\ f.class = "BlockingFilter"
     /\ \E k \in 1..Len(excluded) : IsStrictSubdomain(excluded[k], d)
  THEN <<d>> \o
       (IF Includes(excluded, <<"w", "w", "w", ".">> \o d) THEN <<>>
        ELSE <<(<<"w", "w", "w", ".">> \o d)>>)
  ELSE <<(<<"*">> \o d)>>

IfDomainAsExpected(included, excluded) ==
  \A i \in 1..Len(rules) :
    HasResourceType(rules[i]) =>
      /\ HasKey(rules[i].trigger, "if-domain")
      /\ rules[i].trigger["if-domain"] =
           Flatten([k \in 1..Len(included) |->
                      ExpectedIfDomain(filter, included[k], excluded)])
      /\ ~HasKey(rules[i].trigger, "unless-domain")
      /\ \A k \in 1..Len(excluded) :
           (\E d \in 1..Len(included) :
              IsStrictSubdomain(excluded[k], included[d])) =>
             ~Includes(rules[i].trigger["if-domain"], excluded[k])

(* C10: for every included domain d of a filter: if the filter is a       *)
(* blocking filter and the excluded list (the filter's own excluded       *)
(* domains plus the genericblock exception hostnames) contains at least   *)
(* one strict subdomain of d, if-domain receives the bare d and           *)
(* additionally "www." + d unless "www." + d is itself excluded; in every *)
(* other case if-domain receives "*" + d. The excluded subdomains         *)
(* themselves never appear in the rule.                                   *)
C10_IfDomain ==
  (returned /\ Len(IncludedOf(filter)) > 0) =>
    IfDomainAsExpected(IncludedOf(filter), ExcludedOf(filter))

(* ads$domain=foo.com|~bar.foo.com: if-domain is foo.com, www.foo.com *)
C10_Witness ==
  /\ returned
  /\ filter.class = "BlockingFilter"
  /\ filter.domains.list = <<<<fooCom, TRUE>>, <<barFooCom, FALSE>>>>
  /\ Len(rules) > 0
  /\ \A i \in 1..Len(rules) :
       /\ HasKey(rules[i].trigger, "if-domain")
       /\ rules[i].trigger["if-domain"] = <<<<"f", "o", "o", ".", "c", "o", "m">>, <<"w", "w", "w", ".", "f", "o", "o", ".", "c", "o", "m">>>>

(***************************************************************************)
(* Claims about the css rules                                              *)
(***************************************************************************)
(* The number of comma-separated components of a selector without strings *)
Components(selector) ==
  1 + Cardinality({k \in 1..Len(selector) : selector[k] = ","})

IsCSSRule(rule) == rule.action.type = "css-display-none"

(* C4: every css-display-none rule returned by generateRules has a        *)
(* selector with at most 5000 comma-separated components, for any set of  *)
(* element-hide filters, including filters whose own selector text        *)
(* contains commas.                                                       *)
C4_SelectorLimit ==
  returned =>
    \A i \in 1..Len(rules) :
      IsCSSRule(rules[i]) =>
        Components(rules[i].action.selector) <= selectorLimit

(* The limit holds for the lists of filters whose selectors have no comma *)
C4_WithoutCommas ==
  (/\ returned
   /\ \A k \in 1..Len(elemhideFilters) :
        Components(elemhideFilters[k].selector) = 1) =>
    \A i \in 1..Len(rules) :
      IsCSSRule(rules[i]) =>
        Components(rules[i].action.selector) <= selectorLimit

(***************************************************************************)
(* Claims about the exception domains of the request rules                 *)
(***************************************************************************)
HostnameOf(f) == parseFilterRegexpSource(f.regexpSource, NULL).hostname

HostnamesOf(filters) ==
  Flatten([i \in 1..Len(filters) |->
             IF HostnameOf(filters[i]) \in {NULL, <<>>} THEN <<>>
             ELSE <<HostnameOf(filters[i])>>])

Starred(names) == [i \in 1..Len(names) |-> <<"*">> \o names[i]]

OwnExcludedOf(f) == parseDomains(f.domains, <<>>, <<>>).excluded

WithAction(list_, type) ==
  Pick(list_, [i \in 1..Len(list_) |-> list_[i].action.type = type])

(* The rules of the filter f have the unless-domain of the names excluded, *)
(* and none when f has an included domain or nothing is excluded           *)
UnlessDomainOf(f, list_, excluded) ==
  \A i \in 1..Len(list_) :
    IF Len(IncludedOf(f)) = 0 /\ Len(excluded) > 0 /\
       HasResourceType(list_[i])
    THEN /\ HasKey(list_[i].trigger, "unless-domain")
         /\ list_[i].trigger["unless-domain"] = Starred(excluded)
    ELSE ~HasKey(list_[i].trigger, "unless-domain")

(* The rules of every filter of the bucket, converted with the hostnames *)
(* hosts, exclude the filter's own excluded domains and then hosts       *)
UnlessDomainsOf(filters, action, hosts) ==
  \A k \in 1..Len(filters) :
    UnlessDomainOf(filters[k],
                   convertFilterAddRules(<<>>, filters[k], action, TRUE,
                                         hosts, {}),
                   OwnExcludedOf(filters[k]) \o hosts)

(* What holds of the domains of the rules for every merge option *)
GenericblockDomains(hosts) ==
  \A i \in 1..Len(rules) :
    /\ rules[i].action.type = "block" =>
         IF HasKey(rules[i].trigger, "if-domain")
         THEN ~HasKey(rules[i].trigger, "unless-domain")
         ELSE Len(hosts) > 0 =>
                /\ HasKey(rules[i].trigger, "unless-domain")
                /\ \A h \in 1..Len(hosts) :
                     Includes(rules[i].trigger["unless-domain"],
                              <<"*">> \o hosts[h])
                /\ SubSeq(rules[i].trigger["unless-domain"],
                          Len(rules[i].trigger["unless-domain"]) -
                            Len(hosts) + 1,
                          Len(rules[i].trigger["unless-domain"])) =
                     Starred(hosts)
    /\ (rules[i].action.type = "ignore-previous-rules" /\
        HasKey(rules[i].trigger, "unless-domain")) =>
         \E k \in 1..Len(requestExceptions) :
           rules[i].trigger["unless-domain"] =
             Starred(OwnExcludedOf(requestExceptions[k]))

(* C11: after any sequence of addFilter calls, every block rule generated  *)
(* from a blocking filter with no included domain carries unless-domain    *)
(* with "*" + h for every hostname h of a $genericblock whitelist filter   *)
(* in the list, whether it was added before or after the blocking filter,  *)
(* listed after the filter's own excluded domains; the block rules of the  *)
(* filters that have an included domain carry no unless-domain, and the    *)
(* ignore-previous-rules rules are never given the genericblock hostnames. *)
C11_GenericblockDomains ==
  returned =>
    /\ GenericblockDomains(HostnamesOf(genericblockExceptions))
    /\ options.merge # "all" =>
         /\ WithAction(rules, "block") =
              convertFilters(requestFilters, "block",
                             HostnamesOf(genericblockExceptions))
         /\ UnlessDomainsOf(requestFilters, "block",
                            HostnamesOf(genericblockExceptions))
         /\ WithAction(rules, "ignore-previous-rules") =
              convertFilters(requestExceptions, "ignore-previous-rules",
                             <<>>)
         /\ UnlessDomainsOf(requestExceptions, "ignore-previous-rules",
                            <<>>)

(* @@||example.com^$genericblock is added after /adv$domain=~bar.com and *)
(* /ads$domain=bar.com: the rules of the first exclude *bar.com and      *)
(* *example.com, the rules of the second have if-domain only             *)
C11_Witness ==
  /\ returned
  /\ filter = genericblockException
  /\ requestFilters = <<advExceptBarFilter, adsBarFilter>>
  /\ Len(rules) = 2
  /\ rules[1].trigger["unless-domain"] =
       << <<"*", "b", "a", "r", ".", "c", "o", "m">>,
          <<"*", "e", "x", "a", "m", "p", "l", "e", ".", "c", "o", "m">> >>
  /\ ~HasKey(rules[1].trigger, "if-domain")
  /\ HasKey(rules[2].trigger, "if-domain")
  /\ ~HasKey(rules[2].trigger, "unless-domain")

(* The filter f, converted with the genericblock hostnames hosts, gets *)
(* unless-top-url                                                      *)
IsTopLevelFilter(f, hosts) ==
  /\ f.class = "BlockingFilter"
  /\ "SUBDOCUMENT" \in f.contentType
  /\ HostnameOf(f) \notin {NULL, <<>>}
  /\ Len(IncludedOf(f)) = 0
  /\ Len(OwnExcludedOf(f) \o hosts) = 0

UnlessTopURLOf(list_, expected) ==
  \A i \in 1..Len(list_) :
    HasKey(list_[i].trigger, "unless-top-url") <=> expected

(* Every rule of every filter of the bucket has unless-top-url if and only *)
(* if the filter is one that gets it                                       *)
UnlessTopURLsOf(filters, action, hosts) ==
  \A k \in 1..Len(filters) :
    UnlessTopURLOf(convertFilterAddRules(<<>>, filters[k], action, TRUE,
                                         hosts, {}),
                   IsTopLevelFilter(filters[k], hosts))

(* unless-top-url holds the rule's own url-filter and nothing else *)
TopURLIsOwnURLFilter ==
  \A i \in 1..Len(rules) :
    IF HasKey(rules[i].trigger, "unless-top-url")
    THEN /\ rules[i].trigger["unless-top-url"] =
              <<rules[i].trigger["url-filter"]>>
         /\ HasKey(rules[i].trigger, "top-url-filter-is-case-sensitive") <=>
              HasKey(rules[i].trigger, "url-filter-is-case-sensitive")
    ELSE ~HasKey(rules[i].trigger, "top-url-filter-is-case-sensitive")

(* C12: an emitted rule has unless-top-url if and only if it comes from a *)
(* blocking filter with SUBDOCUMENT in its content type, a hostname in    *)
(* its pattern, no included domain and an empty excluded list, the        *)
(* genericblock exception hostnames included; whenever present,           *)
(* unless-top-url is the one-element list of that rule's own url-filter,  *)
(* for the copies for the other URL schemes and after the optimizer has   *)
(* run too, and top-url-filter-is-case-sensitive is set exactly when      *)
(* url-filter-is-case-sensitive is.                                       *)
C12_UnlessTopURL ==
  returned =>
    /\ TopURLIsOwnURLFilter
    /\ UnlessTopURLOf(WithAction(rules, "css-display-none"), FALSE)
    /\ UnlessTopURLOf(WithAction(rules, "ignore-previous-rules"), FALSE)
    /\ (\E i \in 1..Len(rules) : HasKey(rules[i].trigger, "unless-top-url"))
         <=> \E k \in 1..Len(requestFilters) :
               /\ IsTopLevelFilter(requestFilters[k],
                                   HostnamesOf(genericblockExceptions))
               /\ convertFilterAddRules(
                    <<>>, requestFilters[k], "block", TRUE,
                    HostnamesOf(genericblockExceptions), {}) # <<>>
    /\ options.merge # "all" =>
         /\ WithAction(rules, "block") =
              Flatten([k \in 1..Len(requestFilters) |->
                         convertFilterAddRules(
                           <<>>, requestFilters[k], "block", TRUE,
                           HostnamesOf(genericblockExceptions), {})])
         /\ UnlessTopURLsOf(requestFilters, "block",
                            HostnamesOf(genericblockExceptions))

(* ||foo.com^, ||foo.com/ads$subdocument,websocket and                   *)
(* ||foo.com/adv$subdocument,websocket after the optimizer: the rules of *)
(* the two schemes of each filter are there, each with its own           *)
(* url-filter as unless-top-url                                          *)
C12_Witness ==
  /\ returned
  /\ options.merge = "all"
  /\ requestFilters = <<fooFilter, fooAdsFrameFilter, fooAdvFrameFilter>>
  /\ Len(rules) = 5
  /\ \A i \in 1..Len(rules) :
       /\ HasKey(rules[i].trigger, "unless-top-url")
       /\ rules[i].trigger["unless-top-url"] =
            <<rules[i].trigger["url-filter"]>>
  /\ \E i \in 1..Len(rules) :
       HasKey(rules[i].trigger, "top-url-filter-is-case-sensitive")
  /\ \E i \in 1..Len(rules) :
       /\ StartsWith(rules[i].trigger["url-filter"],
                     <<"^", "w", "s", "s", "?", ":", "/", "/">>)
       /\ ~HasKey(rules[i].trigger, "top-url-filter-is-case-sensitive")

(* The same for the rules of one request filter, for every content type, *)
(* pattern and domain list of SpecConvert                                *)
C12_Converted ==
  returned =>
    /\ TopURLIsOwnURLFilter
    /\ UnlessTopURLOf(rules,
                      IsTopLevelFilter(filter,
                                       HostnamesOf(genericblockExceptions)))

(***************************************************************************)
(* Claims about the case of the url-filter                                 *)
(***************************************************************************)
IsLetter(c) == IsAscii(c) /\ (IsLower(c) \/ IsUpper(c))

(* The index, counted from 0, of the first character of the hostname: the *)
(* one after "||" at the start of the pattern or after the first "://";   *)
(* NoIndex when the pattern has neither                                   *)
HostnameStartOf(text) ==
  IF Len(text) >= 3 /\ text[1] = "|" /\ text[2] = "|" THEN 2
  ELSE IF \E i \in 3..Len(text) :
            text[i - 2] = ":" /\ text[i - 1] = "/" /\ text[i] = "/"
  THEN CHOOSE i \in 3..Len(text) :
         /\ text[i - 2] = ":" /\ text[i - 1] = "/" /\ text[i] = "/"
         /\ \A j \in 3..(i - 1) :
              ~(text[j - 2] = ":" /\ text[j - 1] = "/" /\ text[j] = "/")
  ELSE NoIndex

(* The index, counted from 0, of the character that ends the hostname *)
(* which starts at start, or the length of the pattern               *)
HostnameEndOf(text, start) ==
  IF \E j \in (start + 1)..Len(text) : text[j] \in {"*", "^", "?", "/", "|"}
  THEN (CHOOSE j \in (start + 1)..Len(text) :
          /\ text[j] \in {"*", "^", "?", "/", "|"}
          /\ \A k \in (start + 1)..(j - 1) :
               text[k] \notin {"*", "^", "?", "/", "|"}) - 1
  ELSE Len(text)

(* A hostname anchor is crossed and no ASCII letter follows the hostname *)
SafeAsLowercase(text) ==
  /\ HostnameStartOf(text) # NoIndex
  /\ \A k \in (HostnameEndOf(text, HostnameStartOf(text)) + 1)..Len(text) :
       ~IsLetter(text[k])

(* The upper case letters of a string, in their order *)
Uppers(str) ==
  Pick(str, [i \in 1..Len(str) |-> IsLetter(str[i]) /\ IsUpper(str[i])])

(* The rules made of the lowered pattern have the key                   *)
(* url-filter-is-case-sensitive when sensitive; their url-filters have  *)
(* no upper case letter when lowercase, and the upper case letters of   *)
(* regexp otherwise                                                     *)
CaseAsExpected(regexp, sensitive, lowercase) ==
  \A i \in 1..Len(rules) :
    HasResourceType(rules[i]) =>
      /\ HasKey(rules[i].trigger, "url-filter-is-case-sensitive")
           <=> sensitive
      /\ HasKey(rules[i].trigger, "url-filter-is-case-sensitive") =>
           rules[i].trigger["url-filter-is-case-sensitive"] = TRUE
      /\ Uppers(rules[i].trigger["url-filter"]) =
           IF lowercase THEN <<>> ELSE Uppers(regexp)

(* C13: the lowering marks a pattern as safe to match in lower case       *)
(* exactly when a hostname anchor, "||" or "://", was crossed and no      *)
(* ASCII letter occurs after the end of the hostname; a rule made of the  *)
(* lowered pattern has url-filter-is-case-sensitive, with the value true, *)
(* exactly when that flag or the filter's matchCase is true, and its      *)
(* url-filter is in lower case exactly when the flag is true and          *)
(* matchCase is false.                                                    *)
C13_CaseSensitivity ==
  returned =>
    /\ parseFilterRegexpSource(filter.regexpSource,
                               NULL).canSafelyMatchAsLowercase
         <=> SafeAsLowercase(filter.regexpSource)
    /\ CaseAsExpected(parseFilterRegexpSource(filter.regexpSource,
                                              NULL).regexp,
                      SafeAsLowercase(filter.regexpSource) \/
                        filter.matchCase,
                      SafeAsLowercase(filter.regexpSource) /\
                        ~filter.matchCase)

(* HTTP://foo.com/: the url-filter is in lower case and case sensitive *)
C13_Witness ==
  /\ returned
  /\ filter.class = "BlockingFilter"
  /\ filter.contentType = {"IMAGE"}
  /\ ~filter.matchCase
  /\ filter.regexpSource =
       <<"H", "T", "T", "P", ":", "/", "/", "f", "o", "o", ".", "c", "o",
         "m", "/">>
  /\ Len(rules) = 1
  /\ rules[1].trigger["url-filter"] =
       <<"^", "h", "t", "t", "p", "s", "?", ":", "/", "/", ".", "*", "h",
         "t", "t", "p", ":", "/", "/", "f", "o", "o", "\\", ".", "c", "o",
         "m", "/">>
  /\ HasKey(rules[1].trigger, "url-filter-is-case-sensitive")

(* The iterations i to n - 1 of the loop of parseFilterRegexpSource *)
RECURSIVE ParseUpTo(_, _, _, _, _)
ParseUpTo(st, characters, urlScheme, i, n) ==
  IF i >= n THEN st
  ELSE ParseUpTo(parseStep(st, characters, urlScheme, i), characters,
                 urlScheme, i + 1, n)

(* The regular expression that the lowering makes of the part of the     *)
(* pattern after the hostname: what follows the expression of the anchor *)
(* and the escaped hostname; empty when the hostname does not end        *)
PathRegexp(text, parsed) ==
  IF HostnameStartOf(text) = NoIndex \/ parsed.hostname = NULL THEN <<>>
  ELSE SubSeq(parsed.regexp,
              Len(ParseUpTo(parseStart, text, FirstScheme(<<>>), 0,
                            HostnameStartOf(text)).regexp) +
                Len(escapeRegExp(parsed.hostname)) + 1,
              Len(parsed.regexp))

(* The url-filters of the rules made of the lowered pattern end with path *)
EndsWithPath(path) ==
  \A i \in 1..Len(rules) :
    HasResourceType(rules[i]) =>
      SliceEnd(rules[i].trigger["url-filter"], Len(path)) = path

(* C14: whenever convertFilterAddRules puts a url-filter in lower case,   *)
(* the pattern being safe to match in lower case and the filter without   *)
(* matchCase, no character of the regular expression made of the part of  *)
(* the pattern after the hostname changes: the path, with the percent     *)
(* escapes of its non-ASCII characters and the separator classes of its   *)
(* "^", is the same before and after.                                     *)
C14_PathKeepsCase ==
  (/\ returned
   /\ SafeAsLowercase(filter.regexpSource)
   /\ ~filter.matchCase) =>
    EndsWithPath(PathRegexp(filter.regexpSource,
                            parseFilterRegexpSource(filter.regexpSource,
                                                    NULL)))

(* The path is kept when it has no non-ASCII character and no "^" beyond *)
(* the one that ends the hostname                                        *)
C14_PlainPath ==
  (/\ returned
   /\ SafeAsLowercase(filter.regexpSource)
   /\ ~filter.matchCase
   /\ \A k \in (HostnameEndOf(filter.regexpSource,
                              HostnameStartOf(filter.regexpSource)) +
                  2)..Len(filter.regexpSource) :
        /\ IsAscii(filter.regexpSource[k])
        /\ filter.regexpSource[k] # "^") =>
    EndsWithPath(PathRegexp(filter.regexpSource,
                            parseFilterRegexpSource(filter.regexpSource,
                                                    NULL)))

(* With matchCase the path is as the lowering made it, whatever it is *)
C14_MatchCase ==
  (returned /\ filter.matchCase) =>
    EndsWithPath(PathRegexp(filter.regexpSource,
                            parseFilterRegexpSource(filter.regexpSource,
                                                    NULL)))

(***************************************************************************)
(* Claims about convertIDSelectorsToAttributeSelectors                     *)
(***************************************************************************)
(* A character that an ID goes on with *)
IsIDCharacter(c) ==
  \/ c \in {"-", "_"}
  \/ ~IsAscii(c)
  \/ IsDigit(c) \/ IsUpper(c) \/ IsLower(c)

(* The index after the run of the characters of an ID and of escaped *)
(* characters that starts at j                                       *)
RECURSIVE RunEnd(_, _)
RunEnd(selector, j) ==
  IF j > Len(selector) THEN Len(selector) + 1
  ELSE IF selector[j] = "\\" THEN RunEnd(selector, j + 2)
  ELSE IF IsIDCharacter(selector[j]) THEN RunEnd(selector, j + 1)
  ELSE j

(* The selector from the index i on with every run that starts at an      *)
(* unescaped "#" outside quotes replaced by "[id=" + the run without the  *)
(* "#" + "]" and every other character in its place; sep is the quote     *)
(* that is open, "" for none                                              *)
RECURSIVE WithIDAttributes(_, _, _)
WithIDAttributes(selector, i, sep) ==
  IF i > Len(selector) THEN <<>>
  ELSE IF selector[i] = "\\"
  THEN SubSeq(selector, i, Min(i + 1, Len(selector))) \o
       WithIDAttributes(selector, i + 2, sep)
  ELSE IF sep # ""
  THEN <<selector[i]>> \o
       WithIDAttributes(selector, i + 1,
                        IF selector[i] = sep THEN "" ELSE sep)
  ELSE IF selector[i] \in {"\"", "'"}
  THEN <<selector[i]>> \o WithIDAttributes(selector, i + 1, selector[i])
  ELSE IF selector[i] = "#"
  THEN <<"[", "i", "d", "=">> \o
       SubSeq(selector, i + 1, RunEnd(selector, i + 1) - 1) \o <<"]">> \o
       WithIDAttributes(selector, RunEnd(selector, i + 1), "")
  ELSE <<selector[i]>> \o WithIDAttributes(selector, i + 1, "")

(* No run of the selector from the index i on is ended by a "#" or by a *)
(* quote                                                                *)
RECURSIVE RunsAreSeparated(_, _, _)
RunsAreSeparated(selector, i, sep) ==
  IF i > Len(selector) THEN TRUE
  ELSE IF selector[i] = "\\" THEN RunsAreSeparated(selector, i + 2, sep)
  ELSE IF sep # ""
  THEN RunsAreSeparated(selector, i + 1,
                        IF selector[i] = sep THEN "" ELSE sep)
  ELSE IF selector[i] \in {"\"", "'"}
  THEN RunsAreSeparated(selector, i + 1, selector[i])
  ELSE IF selector[i] = "#"
  THEN /\ CharAt(selector, RunEnd(selector, i + 1) - 1) \notin
            {"#", "\"", "'"}
       /\ RunsAreSeparated(selector, RunEnd(selector, i + 1), "")
  ELSE RunsAreSeparated(selector, i + 1, "")

(* C15: convertIDSelectorsToAttributeSelectors replaces every run that    *)
(* starts at an unescaped "#" outside single or double quotes and goes on *)
(* through the characters of [-_0-9A-Za-z], the characters from 0x80 on   *)
(* and the characters escaped by a backslash by "[id=" + the run without  *)
(* the "#" + "]", and leaves every other character, the text inside       *)
(* quotes and every "#" after a backslash in particular, unchanged and in *)
(* its place; a selector with no such run is returned unchanged.          *)
C15_IDSelectors ==
  returned =>
    /\ Len(rules) = 1
    /\ rules[1].action.selector = WithIDAttributes(filter.selector, 1, "")

(* The same for the selectors in which no run is ended by a "#" or by a *)
(* quote                                                                *)
C15_SeparatedRuns ==
  (returned /\ RunsAreSeparated(filter.selector, 1, "")) =>
    /\ Len(rules) = 1
    /\ rules[1].action.selector = WithIDAttributes(filter.selector, 1, "")

(***************************************************************************)
(* Claims about the element hiding filters and their exceptions            *)
(***************************************************************************)
(* The hostnames of the filters whose pattern is only a hostname *)
JustHostnamesOf(filters) ==
  {parseFilterRegexpSource(filters[k].regexpSource, NULL).hostname :
     k \in {j \in 1..Len(filters) :
              parseFilterRegexpSource(filters[j].regexpSource,
                                      NULL).justHostname}}

(* selector is one of the selectors that text is made of with ", " *)
IsComponent(selector, text) ==
  \E p \in 1..(Len(text) - Len(selector) + 1) :
    /\ SubSeq(text, p, p + Len(selector) - 1) = selector
    /\ p = 1 \/ (p >= 3 /\ SubSeq(text, p - 2, p - 1) = <<",", " ">>)
    /\ \/ p + Len(selector) - 1 = Len(text)
       \/ SubSeq(text, p + Len(selector), p + Len(selector) + 1) =
            <<",", " ">>

(* The rule is for every domain when included is empty, and for one of *)
(* the domains of included otherwise                                   *)
IsRuleFor(rule, included) ==
  IF Len(included) = 0 THEN rule.trigger["url-filter"] = matchDomain(NULL)
  ELSE \E d \in 1..Len(included) :
         rule.trigger["url-filter"] = matchDomain(included[d])

(* The element hiding filter f has its selector in a css rule, which is, *)
(* unless the optimizer has run, a rule for its domains                  *)
Contributes(f) ==
  \E i \in 1..Len(rules) :
    /\ IsCSSRule(rules[i])
    /\ IsComponent(convertIDSelectorsToAttributeSelectors(f.selector),
                   rules[i].action.selector)
    /\ options.merge = "all" \/ IsRuleFor(rules[i], IncludedOf(f))

(* The condition of C16; the keys of elemhideSelectorExceptions are the *)
(* selectors of the exceptions that were added, none of the lists       *)
(* having an exception for a property name of Map                       *)
ShouldContribute(f) ==
  /\ Len(OwnExcludedOf(f)) = 0
  /\ f.selector \notin DOMAIN elemhideSelectorExceptions
  /\ \/ Len(IncludedOf(f)) = 0
     \/ \E d \in 1..Len(IncludedOf(f)) :
          IncludedOf(f)[d] \notin JustHostnamesOf(elemhideExceptions)

(* C16: for any order of addFilter calls, an element hiding filter has    *)
(* its selector in some css-display-none rule of generateRules if and     *)
(* only if it has no excluded domain, no element hiding exception with    *)
(* exactly the same selector was added before generateRules, before or    *)
(* after the filter itself, and, when it is domain-specific, at least one *)
(* of its domains is not a hostname whitelisted with $elemhide.           *)
C16_HideFilters ==
  returned =>
    \A k \in 1..Len(elemhideFilters) :
      Contributes(elemhideFilters[k]) <=>
        ShouldContribute(elemhideFilters[k])

(* The same for the filters whose selector is not a property name of Map *)
C16_OwnSelectors ==
  returned =>
    \A k \in 1..Len(elemhideFilters) :
      elemhideFilters[k].selector \notin InheritedKeys =>
        (Contributes(elemhideFilters[k]) <=>
           ShouldContribute(elemhideFilters[k]))

(* The filters of the list that have the domain d *)
HasDomain(f, d) == \E k \in 1..Len(IncludedOf(f)) : IncludedOf(f)[k] = d

HideDomains ==
  UNION {{IncludedOf(elemhideFilters[k])[d] :
            d \in 1..Len(IncludedOf(elemhideFilters[k]))} :
           k \in 1..Len(elemhideFilters)}

(* unless-domain of the rule is there when expected, and lists "*" + h *)
(* for the hostnames h of names and nothing else                       *)
UnlessDomainIs(rule, expected, names) ==
  IF expected
  THEN /\ HasKey(rule.trigger, "unless-domain")
       /\ {rule.trigger["unless-domain"][k] :
             k \in 1..Len(rule.trigger["unless-domain"])} =
            {<<"*">> \o h : h \in names}
  ELSE ~HasKey(rule.trigger, "unless-domain")

(* The css rules, given the hostnames of the hostname-only $generichide *)
(* and $elemhide exceptions                                             *)
HideExceptionDomains(generichide, elemhide) ==
  \A i \in 1..Len(rules) :
    IsCSSRule(rules[i]) =>
      /\ rules[i].trigger["url-filter"] = matchDomain(NULL) =>
           UnlessDomainIs(rules[i], generichide \cup elemhide # {},
                          generichide \cup elemhide)
      /\ \A d \in HideDomains :
           rules[i].trigger["url-filter"] = matchDomain(d) =>
             /\ d \notin elemhide
             /\ UnlessDomainIs(rules[i], elemhide # {},
                               {h \in elemhide : IsStrictSubdomain(h, d)})
      /\ \/ options.merge = "all"
         \/ rules[i].trigger["url-filter"] = matchDomain(NULL)
         \/ \E d \in HideDomains :
              rules[i].trigger["url-filter"] = matchDomain(d)

IsPrefix(prefix, text) ==
  Len(prefix) <= Len(text) /\ SubSeq(text, 1, Len(prefix)) = prefix

URLFiltersOf(group_) ==
  {group_[i].trigger["url-filter"] : i \in 1..Len(group_)}

(* The number of rules of the group that have the url-filter *)
CountOf(group_, urlFilter) ==
  Cardinality({i \in 1..Len(group_) :
                 group_[i].trigger["url-filter"] = urlFilter})

(* C18: with merge "all", eliminateRedundantRulesByURLFilter removes a    *)
(* rule of a group of rules that differ in url-filter only if and only if *)
(* another rule of the group has a url-filter that is a prefix of, or     *)
(* equal to, its url-filter, and keeps exactly one of several equal ones: *)
(* no url-filter that is left is a prefix of another one that is left,    *)
(* and every rule that was removed has a rule left whose url-filter is a  *)
(* prefix of its own.                                                     *)
C18_RedundantRules ==
  (returned /\ options.merge = "all") =>
    /\ \A i \in 1..Len(rules) : \E k \in 1..Len(group) : rules[i] = group[k]
    /\ \A u \in URLFiltersOf(group) :
         CountOf(rules, u) =
           IF \E v \in URLFiltersOf(group) : v # u /\ IsPrefix(v, u)
           THEN 0 ELSE 1
    /\ \A i, j \in 1..Len(rules) :
         i # j => ~IsPrefix(rules[i].trigger["url-filter"],
                            rules[j].trigger["url-filter"])
    /\ \A k \in 1..Len(group) :
         \E i \in 1..Len(rules) :
           IsPrefix(rules[i].trigger["url-filter"],
                    group[k].trigger["url-filter"])

(* ad, add and ad again: the one rule left is one rule for ad *)
C18_Witness ==
  /\ returned
  /\ options.merge = "all"
  /\ URLFiltersOf(group) = {<<"a", "d">>, <<"a", "d", "d">>}
  /\ Len(group) = 3
  /\ CountOf(group, <<"a", "d">>) = 2
  /\ rules = <<blockRule(<<"a", "d">>)>>

(* The characters that C19 names *)
Metacharacters == {".", "+", "$", "?", "{", "}", "(", ")", "[", "]", "\\"}

(* s and t differ in one character, which is no metacharacter in the *)
(* strings of checked                                                *)
OneSubstitution(s, t, checked) ==
  /\ Len(s) = Len(t)
  /\ \E k \in 1..Len(s) :
       /\ s[k] # t[k]
       /\ \A m \in 1..Len(s) : m # k => s[m] = t[m]
       /\ \A c \in checked : c[k] \notin Metacharacters

(* long is short with one range of characters inserted at one index, *)
(* none of them a metacharacter                                      *)
OneInsertion(short, long) ==
  /\ Len(long) > Len(short)
  /\ \E k \in 0..Len(short) :
       /\ SubSeq(long, 1, k) = SubSeq(short, 1, k)
       /\ SubSeq(long, k + 1 + Len(long) - Len(short), Len(long)) =
            SubSeq(short, k + 1, Len(short))
       /\ \A m \in (k + 1)..(k + Len(long) - Len(short)) :
            long[m] \notin Metacharacters

(* C19: for all strings s and t, closeMatch(s, t) returns an edit exactly *)
(* when s and t differ by the substitution of one character or by the     *)
(* insertion or deletion of one range of characters at one index, and no  *)
(* character of the span that differs, in s or in t, is one of            *)
(* . + $ ? { } ( ) [ ] \ ; whether the result is null does not depend on  *)
(* which of the two strings is the source.                                *)
C19_CloseMatch ==
  returned =>
    /\ edit # NoEdit <=>
         \/ OneSubstitution(source, target, {source, target})
         \/ OneInsertion(source, target)
         \/ OneInsertion(target, source)
    /\ edit = NoEdit <=> closeMatch(target, source) = NoEdit

(* The same with the substituted character looked at in the source only *)
C19_SourceOnly ==
  returned =>
    /\ edit # NoEdit <=>
         \/ OneSubstitution(source, target, {source})
         \/ OneInsertion(source, target)
         \/ OneInsertion(target, source)
    /\ edit.type = "substitute" => Len(source) = Len(target)
    /\ edit.type = "delete" => Len(source) > Len(target)
    /\ edit.type = "insert" => Len(source) < Len(target)

(* What a url-filter means, for the url-filters that mergeRulesByURLFilter *)
(* is given and that it makes: characters for themselves, [...] for one    *)
(* of the characters in it or, after "^", for one that is not in it,       *)
(* (...) for the characters in it, "?" for the item before it or nothing,  *)
(* "$" for the end of the text.  The url-filters of a group all start in   *)
(* the same way, so the text starts where the url-filter does.             *)
ClosingIndex(pattern, closing, i) ==
  IF \E e \in i..Len(pattern) : pattern[e] = closing
  THEN CHOOSE e \in i..Len(pattern) :
         pattern[e] = closing /\ \A m \in i..(e - 1) : pattern[m] # closing
  ELSE Len(pattern) + 1

(* The index after the item that starts at i, not counting its "?" *)
ItemEnd(pattern, i) ==
  IF pattern[i] = "[" THEN ClosingIndex(pattern, "]", i + 1) + 1
  ELSE IF pattern[i] = "(" THEN ClosingIndex(pattern, ")", i + 1) + 1
  ELSE i + 1

InClass(class, character) ==
  IF Len(class) > 0 /\ class[1] = "^"
  THEN \A m \in 2..Len(class) : class[m] # character
  ELSE \E m \in 1..Len(class) : class[m] = character

(* The positions of text after the item pattern[i..j - 1], from the *)
(* positions of from                                                *)
AfterItem(pattern, i, j, text, from) ==
  IF pattern[i] = "["
  THEN {q + 1 : q \in {r \in from : /\ r < Len(text)
                                    /\ InClass(SubSeq(pattern, i + 1, j - 2),
                                               text[r + 1])}}
  ELSE IF pattern[i] = "("
  THEN {q + j - i - 2 :
          q \in {r \in from : /\ r + j - i - 2 <= Len(text)
                              /\ SubSeq(text, r + 1, r + j - i - 2) =
                                   SubSeq(pattern, i + 1, j - 2)}}
  ELSE IF pattern[i] = "$" THEN {r \in from : r = Len(text)}
  ELSE {q + 1 : q \in {r \in from : /\ r < Len(text)
                                    /\ text[r + 1] = pattern[i]}}

RECURSIVE EndsOf(_, _, _, _)
EndsOf(pattern, i, text, from) ==
  IF i > Len(pattern) \/ from = {} THEN from
  ELSE IF ItemEnd(pattern, i) <= Len(pattern) /\
          pattern[ItemEnd(pattern, i)] = "?"
  THEN EndsOf(pattern, ItemEnd(pattern, i) + 1, text,
              from \cup AfterItem(pattern, i, ItemEnd(pattern, i), text, from))
  ELSE EndsOf(pattern, ItemEnd(pattern, i), text,
              AfterItem(pattern, i, ItemEnd(pattern, i), text, from))

(* The url-filter matches the text *)
Matches(pattern, text) == EndsOf(pattern, 1, text, {0}) # {}

MaxText == 4

textSet == UNION {[1..n -> mergeCharacters \cup {"$"}] : n \in 0..MaxText}

(* The url-filter merged matches the texts that one of the url-filters *)
(* of replaced matches, and no other                                   *)
MatchesTheSame(merged, replaced) ==
  \A text \in textSet :
    Matches(merged, text) <=> \E u \in replaced : Matches(u, text)

(* t is s with another character at the index e, from 1 *)
IsSubstitutionAt(s, t, e) ==
  /\ Len(s) = Len(t)
  /\ s[e] # t[e]
  /\ \A m \in 1..Len(s) : m # e => s[m] = t[m]

(* t is s without the characters from the index e to the index e2 *)
IsDeletionAt(s, t, e, e2) ==
  /\ Len(t) = Len(s) - (e2 - e + 1)
  /\ t = SubSeq(s, 1, e - 1) \o SubSeq(s, e2 + 1, Len(s))

(* merged is s with the alternation of C20 at the index e for the *)
(* url-filters of matches                                         *)
IsAlternationAt(merged, s, matches, e) ==
  LET substituted == {t \in matches : IsSubstitutionAt(s, t, e)}
      characters == {s[e]} \cup {t[e] : t \in substituted}
      quantifier == IF \E t \in matches : IsDeletionAt(s, t, e, e)
                    THEN <<"?">> ELSE <<>>
  IN /\ \A t \in matches :
          IsSubstitutionAt(s, t, e) \/ IsDeletionAt(s, t, e, e)
     /\ IF substituted = {}
        THEN merged = SubSeq(s, 1, e) \o quantifier \o
                      SubSeq(s, e + 1, Len(s))
        ELSE \E alternation \in [1..Cardinality(characters) -> characters] :
               /\ {alternation[m] : m \in DOMAIN alternation} = characters
               /\ "-" \in characters => alternation[1] = "-"
               /\ merged = SubSeq(s, 1, e - 1) \o <<"[">> \o alternation \o
                           <<"]">> \o quantifier \o SubSeq(s, e + 1, Len(s))

(* merged is s with the range from e to e2, which t has not, made *)
(* optional                                                       *)
IsOptionalRange(merged, s, t, e, e2) ==
  /\ IsDeletionAt(s, t, e, e2)
  /\ merged = SubSeq(s, 1, e - 1) \o <<"(">> \o SubSeq(s, e, e2) \o
              <<")", "?">> \o SubSeq(s, e2 + 1, Len(s))

(* merged is what C20 says of the url-filter s and its matches *)
IsMergedForm(merged, s, matches) ==
  \/ \E e \in 1..Len(s) : IsAlternationAt(merged, s, matches, e)
  \/ \E t \in matches :
       /\ matches = {t}
       /\ \E e \in 1..Len(s) :
            \E e2 \in (e + 1)..Len(s) : IsOptionalRange(merged, s, t, e, e2)

(* The rules of the group that were merged into another one *)
MergedRules == {p \in 1..Len(group) : mergeableRulesInfo[p].merged}

MergedInto == {k \in 1..Len(group) : mergeableRulesInfo[k].mergedInto}

(* Every rule that others were merged into has a url-filter that *)
(* Holds(merged, its url-filter before, the url-filters of some  *)
(* of the rules that were merged)                                *)
MergedAs(Holds(_, _, _)) ==
  /\ MergedRules = {} <=> MergedInto = {}
  /\ Len(rules) = Len(group) - Cardinality(MergedRules)
  /\ \A k \in 1..Len(group) :
       IF k \in MergedInto
       THEN \E matches \in SUBSET MergedRules :
              /\ matches # {}
              /\ Holds(mergeableRulesInfo[k].rule.trigger["url-filter"],
                       group[k].trigger["url-filter"],
                       {group[p].trigger["url-filter"] : p \in matches})
       ELSE mergeableRulesInfo[k].rule = group[k]

FormAndMeaning(merged, s, matches) ==
  IsMergedForm(merged, s, matches) /\ MatchesTheSame(merged, {s} \cup matches)

(* C20: when mergeCandidateRulesByURLFilter merges a rule with its        *)
(* single-character close matches at the index k, the url-filter that     *)
(* results is the url-filter of the rule with the character at k replaced *)
(* by a bracket alternation of that character and every substituted       *)
(* character (no brackets when there is no substitution, a hyphen placed  *)
(* first), followed by "?" exactly when a match is a deletion; a match of *)
(* several characters wraps the range that differs as "(range)?"; the     *)
(* merged url-filter matches exactly the strings that the url-filters it  *)
(* replaces match.                                                        *)
C20_MergedURLFilter == returned => MergedAs(FormAndMeaning)

(* The form of the merged url-filter alone *)
C20_Form == returned => MergedAs(IsMergedForm)

HasAnchor(urlFilter) == \E m \in 1..Len(urlFilter) : urlFilter[m] = "$"

(* Form and meaning for the groups that have no url-filter with "$" *)
C20_Unanchored ==
  (returned /\ \A k \in 1..Len(group) :
                 ~HasAnchor(group[k].trigger["url-filter"])) =>
    MergedAs(FormAndMeaning)

(***************************************************************************)
(* mergeRules for rules whose merged forms are close to each other         *)
(***************************************************************************)
MaxTwice == 4

(* The four url-filters of two characters over a and b, and three rules   *)
(* for a and b that differ in resource-type                               *)
twiceRules ==
  {arrayRule(<<x, y>>, <<>>, <<>>) : x \in {"a", "b"}, y \in {"a", "b"}} \cup
  {arrayRule(<<"a">>, <<<<"script">>>>, <<>>),
   arrayRule(<<"a">>, <<<<"image">>>>, <<>>),
   arrayRule(<<"b">>, <<<<"script">>, <<"image">>>>, <<>>)}

(* A category of rules, no two of them alike *)
InitTwice ==
  /\ list = <<>>
  /\ options = [merge |-> "all"]
  /\ requestFilters = <<>>
  /\ requestExceptions = <<>>
  /\ elemhideFilters = <<>>
  /\ elemhideExceptions = <<>>
  /\ genericblockExceptions = <<>>
  /\ generichideExceptions = <<>>
  /\ elemhideSelectorExceptions = <<>>
  /\ filter = noFilter
  /\ calls = 0
  /\ returned = FALSE
  /\ rules = <<>>
  /\ \E n \in 1..MaxTwice :
       \E g \in [1..n -> twiceRules] :
         /\ \A i, j \in 1..n : i # j => g[i] # g[j]
         /\ group = g
  /\ mergeableRulesInfo = <<>>
  /\ source = <<>>
  /\ target = <<>>
  /\ edit = NoEdit
  /\ SchedulerIdle
  /\ DecisionIdle

SpecTwice == InitTwice /\ [][NextArrays]_vars

(***************************************************************************)
(* The search range of the callbacks of mergeRules in a long group         *)
(***************************************************************************)
digits == <<"0", "1", "2", "3", "4", "5", "6", "7", "8", "9">>

Digit(k, power) == (k \div power) % 10

(* The url-filter of the rule that fills the position k: z, the four     *)
(* digits of k and the last digit of their sum, so that no two of them   *)
(* are close and none begins with another                                *)
fillerURLFilter(k) ==
  <<"z", digits[Digit(k, 1000) + 1], digits[Digit(k, 100) + 1],
    digits[Digit(k, 10) + 1], digits[Digit(k, 1) + 1],
    digits[((Digit(k, 1000) + Digit(k, 100) + Digit(k, 10) + Digit(k, 1))
              % 10) + 1]>>

(* Pairs of url-filters of which one begins with the other and has one *)
(* more character, so that one is redundant and the two are close      *)
rangePairs ==
  {<<(<<"a", "d", "s">>), (<<"a", "d", "s", "x">>)>>,
   <<(<<"a", "d", "s", "x">>), (<<"a", "d", "s">>)>>,
   <<(<<"a", "d">>), (<<"a", "d", "v">>)>>,
   <<(<<"a", "d", "v">>), (<<"a", "d">>)>>}

(* The index of the first rule of the pair and the distance of the second *)
rangeIndexes == 0..2

rangeDistances == (heuristicRange - 2)..(heuristicRange + 1)

rangeLength == heuristicRange + 4

(* The group of rangeLength rules with the pair at index and at index + *)
(* distance                                                             *)
rangeGroup(pair, index, distance) ==
  [k \in 1..rangeLength |->
     blockRule(IF k = index + 1 THEN pair[1]
               ELSE IF k = index + distance + 1 THEN pair[2]
               ELSE fillerURLFilter(k))]

(* The index of the rule of the group with the url-filter *)
IndexOfURLFilter(urlFilter) ==
  (CHOOSE k \in 1..Len(group) : group[k].trigger["url-filter"] = urlFilter) - 1

InitRange ==
  /\ list = <<>>
  /\ options \in [merge : {"all", "auto"}]
  /\ requestFilters = <<>>
  /\ requestExceptions = <<>>
  /\ elemhideFilters = <<>>
  /\ elemhideExceptions = <<>>
  /\ genericblockExceptions = <<>>
  /\ generichideExceptions = <<>>
  /\ elemhideSelectorExceptions = <<>>
  /\ filter = noFilter
  /\ calls = 0
  /\ returned = FALSE
  /\ rules = <<>>
  /\ \E pair \in rangePairs, index \in rangeIndexes,
        distance \in rangeDistances :
       /\ group = rangeGroup(pair, index, distance)
       /\ source = pair[1]
       /\ target = pair[2]
  /\ mergeableRulesInfo = <<>>
  /\ edit = NoEdit
  /\ SchedulerIdle
  /\ DecisionIdle

(* The callback of eliminateRedundantRulesByURLFilter for the rule with *)
(* the url-filter source                                                *)
MarkRedundantFrom ==
  /\ ~returned
  /\ mergeableRulesInfo' =
       markRedundantFrom([i \in 1..Len(group) |-> RuleInfo(group[i])],
                         IndexOfURLFilter(source), options.merge = "all")
  /\ returned' = TRUE
  /\ UNCHANGED <<list, options, buckets, filter, calls, rules, group, source,
                 target, edit>>
  /\ UNCHANGED scheduler
  /\ UNCHANGED decision

(* findMatchesForRuleByURLFilter for the rule with the url-filter source *)
FindMatchesForRule ==
  /\ ~returned
  /\ mergeableRulesInfo' =
       findMatchesForRuleByURLFilter(
         [i \in 1..Len(group) |-> RuleInfo(group[i])],
         IndexOfURLFilter(source), options.merge = "all")
  /\ returned' = TRUE
  /\ UNCHANGED <<list, options, buckets, filter, calls, rules, group, source,
                 target, edit>>
  /\ UNCHANGED scheduler
  /\ UNCHANGED decision

NextRange == MarkRedundantFrom \/ FindMatchesForRule

SpecRange == InitRange /\ [][NextRange]_vars

(***************************************************************************)
(* async and callLater: mergeRules step by step                            *)
(***************************************************************************)
pauseInterval == 100

MaxPauses == 2

asyncLengths == 1..2

(* The call of async that starts at the time lastPause.  kind is first   *)
(* for async(() => {...}) of mergeRules, urlGroups for the async over    *)
(* the groups of its callee, array for the async over                    *)
(* arrayPropertiesToMergeBy and arrayGroups for the async over the       *)
(* groups of one property.  started counts the callbacks of then that    *)
(* have run, done the promises of the steps that are resolved; closed is *)
(* set once the then of the promise that async returned has run.         *)
Frame(kind, property, groups, length, parent, lastPause) ==
  [kind |-> kind, property |-> property, groups |-> groups,
   length |-> length, parent |-> parent, lastPause |-> lastPause,
   started |-> 0, done |-> 0, closed |-> FALSE]

(* now - lastPause >= 100 *)
shouldPause(time, lastPause) == time - lastPause >= pauseInterval

(* The callbacks of then run without waiting for the step before *)
startsAtOnce(frame) == TRUE

(* promise = promise.then(...): the callback of a step runs once the *)
(* promise of the step before is resolved                            *)
canStart(frame) == frame.started = frame.done

(* The promise of the step of the frame f that is under way is resolved *)
Resolved(frames_, f) == [frames_ EXCEPT ![f].done = @ + 1]

(* next() for the step k of the frame f: the frames and the rulesInfo *)
(* after it                                                           *)
callNext(frames_, rulesInfo, f, k, exhaustive, time) ==
  IF frames_[f].kind = "first"
  THEN LET groups == groupRulesByMergeableProperty(rulesInfo, "url-filter")
       IN [frames |-> Append(frames_,
                             Frame("urlGroups", "url-filter", groups,
                                   Len(groups), f, time)),
           rulesInfo |-> rulesInfo]
  ELSE IF frames_[f].kind = "urlGroups"
  THEN [frames |-> Resolved(frames_, f),
        rulesInfo |-> mergeGroupByURLFilter(rulesInfo, frames_[f].groups[k],
                                            exhaustive)]
  ELSE IF frames_[f].kind = "array"
  THEN LET property == arrayPropertiesToMergeBy[k]
           groups == groupRulesByMergeableProperty(rulesInfo, property)
       IN [frames |-> Append(frames_,
                             Frame("arrayGroups", property, groups,
                                   Len(groups), f, time)),
           rulesInfo |-> rulesInfo]
  ELSE [frames |-> Resolved(frames_, f),
        rulesInfo |-> mergeGroupByArrayProperty(rulesInfo,
                                                frames_[f].groups[k],
                                                frames_[f].property)]

(* mergeRules(group, exhaustive) has returned its promise *)
InitAsync ==
  /\ list = <<>>
  /\ options = [merge |-> "all"]
  /\ requestFilters = <<>>
  /\ requestExceptions = <<>>
  /\ elemhideFilters = <<>>
  /\ elemhideExceptions = <<>>
  /\ genericblockExceptions = <<>>
  /\ generichideExceptions = <<>>
  /\ elemhideSelectorExceptions = <<>>
  /\ filter = noFilter
  /\ calls = 0
  /\ returned = FALSE
  /\ rules = <<>>
  /\ \E n \in asyncLengths :
       \E g \in [1..n -> twiceRules] :
         /\ \A i, j \in 1..n : i # j => g[i] # g[j]
         /\ group = g
  /\ mergeableRulesInfo = [i \in 1..Len(group) |-> RuleInfo(group[i])]
  /\ source = <<>>
  /\ target = <<>>
  /\ edit = NoEdit
  /\ frames = <<Frame("first", "url-filter", <<>>, 1, 0, 0)>>
  /\ timers = <<>>
  /\ log = <<>>
  /\ now = 0
  /\ DecisionIdle

(* The callback of then for the next step of the frame f *)
Then(f) ==
  /\ ~frames[f].closed
  /\ frames[f].started < frames[f].length
  /\ canStart(frames[f])
  /\ IF shouldPause(now, frames[f].lastPause)
     THEN /\ frames' = [frames EXCEPT ![f].started = @ + 1,
                                      ![f].lastPause = now]
          /\ timers' = Append(timers, [frame |-> f,
                                       step |-> frames[f].started + 1])
          /\ UNCHANGED <<log, mergeableRulesInfo>>
     ELSE /\ frames' =
               callNext([frames EXCEPT ![f].started = @ + 1],
                        mergeableRulesInfo, f, frames[f].started + 1,
                        options.merge = "all", now).frames
          /\ mergeableRulesInfo' =
               callNext(frames, mergeableRulesInfo, f, frames[f].started + 1,
                        options.merge = "all", now).rulesInfo
          /\ log' = Append(log, [frame |-> f, step |-> frames[f].started + 1,
                                 later |-> FALSE])
          /\ UNCHANGED timers
  /\ UNCHANGED <<list, options, buckets, filter, calls, returned, rules,
                 group, source, target, edit, now>>
  /\ UNCHANGED decision

(* callLater: the call of the first of the timers *)
Later ==
  /\ timers # <<>>
  /\ frames' = callNext(frames, mergeableRulesInfo, timers[1].frame,
                        timers[1].step, options.merge = "all", now).frames
  /\ mergeableRulesInfo' =
       callNext(frames, mergeableRulesInfo, timers[1].frame, timers[1].step,
                options.merge = "all", now).rulesInfo
  /\ log' = Append(log, [frame |-> timers[1].frame, step |-> timers[1].step,
                         later |-> TRUE])
  /\ timers' = Tail(timers)
  /\ UNCHANGED <<list, options, buckets, filter, calls, returned, rules,
                 group, source, target, edit, now>>
  /\ UNCHANGED decision

(* The then of the promise that async returned for the frame f *)
Settle(f) ==
  /\ ~frames[f].closed
  /\ frames[f].done = frames[f].length
  /\ frames[f].started = frames[f].length
  /\ IF frames[f].kind = "first"
     THEN /\ frames' = Append([frames EXCEPT ![f].closed = TRUE],
                              Frame("array", "url-filter", <<>>,
                                    Len(arrayPropertiesToMergeBy), 0, now))
          /\ UNCHANGED <<mergeableRulesInfo, rules, returned>>
     ELSE IF frames[f].kind = "urlGroups"
     THEN /\ frames' = Resolved([frames EXCEPT ![f].closed = TRUE],
                                frames[f].parent)
          /\ mergeableRulesInfo' = Unflagged(mergeableRulesInfo, TRUE, TRUE)
          /\ UNCHANGED <<rules, returned>>
     ELSE IF frames[f].kind = "arrayGroups"
     THEN /\ frames' = Resolved([frames EXCEPT ![f].closed = TRUE],
                                frames[f].parent)
          /\ mergeableRulesInfo' = Unflagged(mergeableRulesInfo, FALSE, TRUE)
          /\ UNCHANGED <<rules, returned>>
     ELSE /\ frames' = [frames EXCEPT ![f].closed = TRUE]
          /\ rules' = rulesOf(mergeableRulesInfo)
          /\ returned' = TRUE
          /\ UNCHANGED mergeableRulesInfo
  /\ UNCHANGED <<list, options, buckets, filter, calls, group, source,
                 target, edit, timers, log, now>>
  /\ UNCHANGED decision

(* Time goes by *)
Tick ==
  /\ ~returned
  /\ now < MaxPauses * pauseInterval
  /\ now' = now + pauseInterval
  /\ UNCHANGED <<list, options, buckets, filter, calls, returned, rules,
                 optimizer, frames, timers, log>>
  /\ UNCHANGED decision

NextAsync ==
  \/ \E f \in 1..Len(frames) : Then(f)
  \/ Later
  \/ \E f \in 1..Len(frames) : Settle(f)
  \/ Tick

SpecAsync == InitAsync /\ [][NextAsync]_vars

(***************************************************************************)
(* The return statement of generateRules on the lengths of the ruleGroups  *)
(***************************************************************************)
MaxAuto == 2

(* The length of a group: a few rules, or about autoMergeThreshold rules *)
groupLengths ==
  (0..MaxAuto) \cup ((autoMergeThreshold - 1)..(autoMergeThreshold + 1))

(* ruleGroups.reduce((n, group) => n + group.length, 0) *)
RECURSIVE reduceLengths(_, _)
reduceLengths(ruleGroupLengths, n) ==
  IF ruleGroupLengths = <<>> THEN n
  ELSE reduceLengths(Tail(ruleGroupLengths), n + Head(ruleGroupLengths))

(* The condition under which the callee of an index calls mergeRules *)
shouldMerge(merge, ruleGroupLengths) ==
  \/ merge = "all"
  \/ /\ merge = "auto"
     /\ reduceLengths(ruleGroupLengths, 0) > autoMergeThreshold

(* The lengths of what mergeRules resolves to for a group of the length: *)
(* a merge makes one rule of two or more, and here takes away MaxAuto    *)
(* rules at most                                                         *)
mergedLengths(length) ==
  {n \in (length - MaxAuto)..length : n >= (IF length > 0 THEN 1 ELSE 0)}

(* generateRules has built the four ruleGroups and calls async; the *)
(* index 0 of the code is the index 1 here                          *)
InitDecision ==
  /\ lengths \in [1..4 -> groupLengths]
  /\ groupIndex = 1
  /\ mergedGroups = {}
  /\ options \in [merge : {"off", "auto", "all"}]
  /\ list = <<>>
  /\ requestFilters = <<>>
  /\ requestExceptions = <<>>
  /\ elemhideFilters = <<>>
  /\ elemhideExceptions = <<>>
  /\ genericblockExceptions = <<>>
  /\ generichideExceptions = <<>>
  /\ elemhideSelectorExceptions = <<>>
  /\ filter = noFilter
  /\ calls = 0
  /\ returned = FALSE
  /\ rules = <<>>
  /\ OptimizerIdle
  /\ SchedulerIdle

(* The callee of the index when the condition holds: mergeRules, whose *)
(* result replaces the group, then next                                *)
MergeGroup ==
  /\ groupIndex \in 1..Len(lengths)
  /\ shouldMerge(options.merge, lengths)
  /\ \E n \in mergedLengths(lengths[groupIndex]) :
       lengths' = [lengths EXCEPT ![groupIndex] = n]
  /\ mergedGroups' = mergedGroups \cup {groupIndex}
  /\ groupIndex' = groupIndex + 1
  /\ UNCHANGED <<list, options, buckets, filter, calls, returned, rules,
                 optimizer, scheduler>>

(* The callee of the index when the condition does not hold: next *)
PassGroup ==
  /\ groupIndex \in 1..Len(lengths)
  /\ ~shouldMerge(options.merge, lengths)
  /\ groupIndex' = groupIndex + 1
  /\ UNCHANGED <<list, options, buckets, filter, calls, returned, rules,
                 optimizer, scheduler, lengths, mergedGroups>>

NextDecision ==
  \/ MergeGroup
  \/ PassGroup

SpecDecision == InitDecision /\ [][NextDecision]_vars

(***************************************************************************)
(* Claims about the second step of mergeRules                              *)
(***************************************************************************)
(* The rule without the property *)
Without(rule, property) ==
  [rule EXCEPT !.trigger = [k \in DOMAIN rule.trigger \ {property} |->
                              rule.trigger[k]]]

ValuesOf(rule, property) ==
  IF property \in DOMAIN rule.trigger THEN rule.trigger[property] ELSE <<>>

(* The positions of the rules of list_ that are the rule at i but for the *)
(* property                                                               *)
GroupOf(list_, i, property) ==
  {j \in 1..Len(list_) :
     Without(list_[j], property) = Without(list_[i], property)}

(* The values of the property in the rules at the positions members *)
AllValuesOf(list_, members, property) ==
  UNION {{ValuesOf(list_[j], property)[k] :
            k \in 1..Len(ValuesOf(list_[j], property))} : j \in members}

(* The first occurrence of the value v: the position of the rule and the *)
(* index in its property, as one number                                  *)
FirstOccurrence(list_, members, property, v) ==
  CHOOSE a \in UNION {{j * 100 + k :
                          k \in 1..Len(ValuesOf(list_[j], property))} :
                         j \in members} :
    /\ ValuesOf(list_[a \div 100], property)[a % 100] = v
    /\ \A j \in members :
         \A k \in 1..Len(ValuesOf(list_[j], property)) :
           ValuesOf(list_[j], property)[k] = v => a <= j * 100 + k

(* Every value of the rules at the positions members once, a value whose *)
(* first occurrence is earlier before the others                         *)
UnionInOrder(list_, members, property) ==
  CHOOSE union \in [1..Cardinality(AllValuesOf(list_, members, property)) ->
                      AllValuesOf(list_, members, property)] :
    \A m, n \in DOMAIN union :
      m < n => FirstOccurrence(list_, members, property, union[m]) <
               FirstOccurrence(list_, members, property, union[n])

(* The first rule of a group with the values of the whole group, and *)
(* without the property when there is no value                       *)
WithUnion(rule, union, property) ==
  IF Len(union) = 0 THEN rule
  ELSE [rule EXCEPT !.trigger =
          [k \in DOMAIN rule.trigger \cup {property} |->
             IF k = property THEN union ELSE rule.trigger[k]]]

(* The positions of the rules that are the first of their group *)
FirstsOf(list_, property) ==
  {i \in 1..Len(list_) : \A j \in GroupOf(list_, i, property) : i <= j}

(* The position in list_ of the n-th rule that is the first of its group *)
NthFirst(list_, property, n) ==
  CHOOSE i \in FirstsOf(list_, property) :
    Cardinality({j \in FirstsOf(list_, property) : j <= i}) = n

(* list_ with every group of rules that are alike but for the property *)
(* replaced by its first rule, with the union of the values            *)
MergedBy(list_, property) ==
  [n \in 1..Cardinality(FirstsOf(list_, property)) |->
     IF GroupOf(list_, NthFirst(list_, property, n), property) =
          {NthFirst(list_, property, n)}
     THEN list_[NthFirst(list_, property, n)]
     ELSE WithUnion(list_[NthFirst(list_, property, n)],
                    UnionInOrder(list_,
                                 GroupOf(list_, NthFirst(list_, property, n),
                                         property),
                                 property),
                    property)]

(* C21: in the second step of mergeRules, first for resource-type and    *)
(* then for if-domain, the rules that are identical once the property is *)
(* removed are replaced by the first of them in the order of the list,   *)
(* whose property becomes the union without duplicates of the values of  *)
(* all the rules of the group, in the order of their first occurrence;   *)
(* the other rules of the group are removed and the rules of the groups  *)
(* of one rule are unchanged.                                            *)
C21_ArrayProperties ==
  returned =>
    rules = MergedBy(MergedBy(group, "resource-type"), "if-domain")

(* a for foo with script and image, a for foo with image and a for bar *)
(* with script and image: the first two become one rule by              *)
(* resource-type, and this rule and the third become one by if-domain   *)
C21_Witness ==
  /\ returned
  /\ group = <<arrayRule(<<"a">>, <<<<"script">>, <<"image">>>>,
                         <<<<"*", "f", "o", "o">>>>),
               arrayRule(<<"a">>, <<<<"image">>>>,
                         <<<<"*", "f", "o", "o">>>>),
               arrayRule(<<"a">>, <<<<"script">>, <<"image">>>>,
                         <<<<"*", "b", "a", "r">>>>)>>
  /\ Len(rules) = 1
  /\ rules[1].trigger["resource-type"] = <<<<"script">>, <<"image">>>>
  /\ rules[1].trigger["if-domain"] =
       <<<<"*", "f", "o", "o">>, <<"*", "b", "a", "r">>>>

(***************************************************************************)
(* Claims about what the merged rules match                                *)
(***************************************************************************)
(* The rule wide matches whatever the rule narrow matches: the same        *)
(* url-filter and action, and for resource-type and if-domain either no    *)
(* property, which is every value, or all the values of narrow             *)
Covers(wide, narrow) ==
  /\ wide.action = narrow.action
  /\ wide.trigger["url-filter"] = narrow.trigger["url-filter"]
  /\ \A property \in {"resource-type", "if-domain"} :
       HasKey(wide.trigger, property) =>
         /\ HasKey(narrow.trigger, property)
         /\ \A k \in 1..Len(narrow.trigger[property]) :
              \E l \in 1..Len(wide.trigger[property]) :
                wide.trigger[property][l] = narrow.trigger[property][k]

(* C29: the second step of mergeRules never narrows a rule: when a group  *)
(* merged on if-domain or resource-type has a rule without the property,  *)
(* the rule that is kept has no such property either, so every rule of    *)
(* the category is still covered by a rule of the result.                 *)
C29_NeverNarrows ==
  returned =>
    \A i \in 1..Len(group) :
      \E j \in 1..Len(rules) : Covers(rules[j], group[i])

(* a for images on every domain and a for images on foo become the one *)
(* rule for images on foo                                               *)
C29_Narrowed ==
  /\ returned
  /\ group = <<arrayRule(<<"a">>, <<<<"image">>>>, <<>>),
               arrayRule(<<"a">>, <<<<"image">>>>,
                         <<<<"*", "f", "o", "o">>>>)>>
  /\ rules = <<arrayRule(<<"a">>, <<<<"image">>>>,
                         <<<<"*", "f", "o", "o">>>>)>>

(***************************************************************************)
(* Claims about the arrays of the triggers                                 *)
(***************************************************************************)
arrayProperties ==
  {"if-domain", "unless-domain", "unless-top-url", "resource-type"}

(* C30: every if-domain, unless-domain, unless-top-url and resource-type  *)
(* array of a rule returned by generateRules has at least one element; a  *)
(* css-display-none rule for one domain has unless-domain only when an    *)
(* exception domain is a subdomain of its domain.                         *)
C30_NonEmptyArrays ==
  returned =>
    \A i \in 1..Len(rules) :
      \A property \in arrayProperties :
        HasKey(rules[i].trigger, property) =>
          Len(rules[i].trigger[property]) > 0

(* A rule that hides on one domain has an unless-domain without elements *)
C30_EmptyUnlessDomain ==
  /\ returned
  /\ \E i \in 1..Len(rules) :
       /\ rules[i].action.type = "css-display-none"
       /\ rules[i].trigger["url-filter"] # matchDomain(NULL)
       /\ HasKey(rules[i].trigger, "unless-domain")
       /\ rules[i].trigger["unless-domain"] = <<>>

(***************************************************************************)
(* Claims about the flags of mergeCandidateRulesByURLFilter                *)
(***************************************************************************)
(* The number of rules that the rule i of the group has absorbed, read     *)
(* from its url-filter: a class of k characters and a quantifier make the  *)
(* url-filter k + 1 and 1 longer, for k - 1 and 1 rules; a group in        *)
(* parentheses or a quantifier alone stands for one rule                   *)
Absorbed(i) ==
  IF Includes(URLFilterOf(mergeableRulesInfo[i]), "[")
  THEN Len(URLFilterOf(mergeableRulesInfo[i])) -
       Len(group[i].trigger["url-filter"]) - 2
  ELSE 1

RECURSIVE AbsorbedUpTo(_)
AbsorbedUpTo(n) ==
  IF n = 0 THEN 0
  ELSE AbsorbedUpTo(n - 1) +
       (IF mergeableRulesInfo[n].mergedInto THEN Absorbed(n) ELSE 0)

(* C26: in one pass of mergeCandidateRulesByURLFilter over a group every  *)
(* rule takes part in at most one merge: no rule is both merged and       *)
(* mergedInto, a rule that is merged was absorbed by exactly one rule     *)
(* that stays, and a rule that has absorbed others is not absorbed and    *)
(* keeps the url-filter of its one merge.                                 *)
C26_OneMerge ==
  returned =>
    /\ Len(mergeableRulesInfo) = Len(group)
    /\ \A i \in 1..Len(group) :
         /\ ~(mergeableRulesInfo[i].merged /\ mergeableRulesInfo[i].mergedInto)
         /\ ~mergeableRulesInfo[i].mergedInto =>
              URLFilterOf(mergeableRulesInfo[i]) =
                group[i].trigger["url-filter"]
         /\ mergeableRulesInfo[i].mergedInto =>
              URLFilterOf(mergeableRulesInfo[i]) #
                group[i].trigger["url-filter"]
    /\ AbsorbedUpTo(Len(group)) =
         Cardinality({i \in 1..Len(group) : mergeableRulesInfo[i].merged})

(* a- has absorbed aa, and -a, which is close to aa too, has absorbed *)
(* nothing                                                            *)
C26_Witness ==
  /\ returned
  /\ Len(group) = 3
  /\ group[1].trigger["url-filter"] = <<"a", "-">>
  /\ group[2].trigger["url-filter"] = <<"-", "a">>
  /\ group[3].trigger["url-filter"] = <<"a", "a">>
  /\ mergeableRulesInfo[1].mergedInto
  /\ mergeableRulesInfo[3].merged
  /\ ~mergeableRulesInfo[2].merged /\ ~mergeableRulesInfo[2].mergedInto
  /\ Len(rules) = 2

(***************************************************************************)
(* Claims about mergeRules applied to its own result                       *)
(***************************************************************************)
(* C23: mergeRules is idempotent: mergeRules with exhaustive true applied *)
(* to the result of mergeRules for a list of rules of one category        *)
(* returns this result unchanged.                                         *)
C23_Idempotent ==
  returned => mergeRules(rules, TRUE) = rules

(* aa, ab, ba and bb become [ab]a and [ab]b, which differ in one *)
(* character and become [ab][ab] the second time                 *)
C23_MergedAgain ==
  /\ returned
  /\ group = <<arrayRule(<<"a", "a">>, <<>>, <<>>),
               arrayRule(<<"a", "b">>, <<>>, <<>>),
               arrayRule(<<"b", "a">>, <<>>, <<>>),
               arrayRule(<<"b", "b">>, <<>>, <<>>)>>
  /\ rules = <<arrayRule(<<"[", "a", "b", "]", "a">>, <<>>, <<>>),
               arrayRule(<<"[", "a", "b", "]", "b">>, <<>>, <<>>)>>
  /\ mergeRules(rules, TRUE) =
       <<arrayRule(<<"[", "a", "b", "]", "[", "a", "b", "]">>, <<>>, <<>>)>>

(***************************************************************************)
(* Claims about justHostname                                               *)
(***************************************************************************)
(* parseFilterRegexpSource for the filter, as convertFilterAddRules calls *)
(* it                                                                     *)
parsedFilter ==
  parseFilterRegexpSource(filter.regexpSource,
                          getURLSchemes(filter.contentType)[1])

(* What may follow the hostname of a pattern that ends with it: nothing, *)
(* the $ of a last |, or the separator of a last ^                       *)
hostnameAnchors ==
  {<<>>, <<"$">>,
   <<"(", "[", "^", "-", "_", ".", "%", "a", "-", "z", "0", "-", "9", "]",
     ".", "*", ")", "?", "$">>}

EndsWith(s, suffix) ==
  /\ Len(suffix) <= Len(s)
  /\ SubSeq(s, Len(s) - Len(suffix) + 1, Len(s)) = suffix

(* C28: when parseFilterRegexpSource returns justHostname true, hostname *)
(* is not empty and regexp is the url scheme and the escaped hostname    *)
(* with at most an anchor after it, and no path, query or separator;     *)
(* justHostname is true only for a pattern that is a hostname and        *)
(* anchors.                                                              *)
C28_JustHostname ==
  (returned /\ parsedFilter.justHostname) =>
    /\ parsedFilter.hostname # <<>>
    /\ \E anchor \in hostnameAnchors :
         EndsWith(parsedFilter.regexp,
                  escapeRegExp(parsedFilter.hostname) \o anchor)

(* ||^ is a pattern of just a hostname, the empty one *)
C28_EmptyHostname ==
  /\ returned
  /\ filter.regexpSource = <<"|", "|", "^">>
  /\ parsedFilter.justHostname
  /\ parsedFilter.hostname = <<>>

(* ||foo.com/ is a pattern of just a hostname whose regexp ends with / *)
C28_Path ==
  /\ returned
  /\ filter.regexpSource = <<"|", "|", "f", "o", "o", ".", "c", "o", "m", "/">>
  /\ parsedFilter.justHostname
  /\ EndsWith(parsedFilter.regexp, <<"m", "/">>)

(***************************************************************************)
(* Claims about the start of the url-filter                                *)
(***************************************************************************)
(* The patterns of getURLSchemes and of matchDomain *)
schemePatterns ==
  {<<"[", "^", ":", "]", "+", ":", "(", "/", "/", ")", "?">>,
   <<"w", "s", "s", "?", ":", "/", "/">>,
   <<"s", "t", "u", "n", "s", "?", ":">>,
   <<"t", "u", "r", "n", "s", "?", ":">>,
   <<"h", "t", "t", "p", "s", "?", ":", "/", "/">>}

(* text begins with a scheme pattern, or with a scheme written out: some *)
(* characters other than a colon and then a colon                        *)
BeginsWithScheme(text) ==
  \/ \E scheme \in schemePatterns : StartsWith(text, scheme)
  \/ \E k \in 2..Len(text) :
       /\ text[k] = ":"
       /\ \A j \in 1..(k - 1) : text[j] # ":"

SchemeAnchored(urlFilter) ==
  /\ StartsWith(urlFilter, <<"^">>)
  /\ BeginsWithScheme(SubSeq(urlFilter, 2, Len(urlFilter)))

(* C24 as stated: every rule returned by generateRules has a url-filter *)
(* that begins with ^ followed by a scheme pattern or a scheme.         *)
C24_SchemeAnchored ==
  returned =>
    \A i \in 1..Len(rules) : SchemeAnchored(rules[i].trigger["url-filter"])

(* The pattern of the filter begins with a | that is the anchor of the *)
(* start: a | that is not followed by another, or the pattern ||       *)
AnchoredByBar(f) ==
  /\ f.regexpSource # NULL
  /\ StartsWith(f.regexpSource, <<"|">>)
  /\ \/ ~StartsWith(f.regexpSource, <<"|", "|">>)
     \/ f.regexpSource = <<"|", "|">>

(* The rule of a $document exception for just a hostname *)
IsCatchAllRule(rule) ==
  /\ rule.trigger["url-filter"] = <<".", "*">>
  /\ rule.action.type = "ignore-previous-rules"
  /\ HasKey(rule.trigger, "if-domain")

(* C24: every rule returned by generateRules has a url-filter that      *)
(* begins with ^, but for the ignore-previous-rules rules with if-domain *)
(* of the $document exceptions for just a hostname, whose url-filter is  *)
(* .*; the ^ is followed by a scheme pattern or a scheme unless the      *)
(* pattern of a filter begins with the anchor |.                         *)
C24_Anchored ==
  returned =>
    \A i \in 1..Len(rules) :
      \/ IsCatchAllRule(rules[i])
      \/ /\ StartsWith(rules[i].trigger["url-filter"], <<"^">>)
         /\ \/ SchemeAnchored(rules[i].trigger["url-filter"])
            \/ \E k \in 1..Len(list) : AnchoredByBar(list[k])

(* Rules for |foo.com/ads, for @@||foo.com^$document,image and for ads *)
C24_Witness ==
  /\ returned
  /\ Len(rules) > 0
  /\ \/ /\ AnchoredByBar(filter)
        /\ ~SchemeAnchored(rules[1].trigger["url-filter"])
     \/ /\ IsCatchAllRule(rules[1])
        /\ Len(rules) > 1
     \/ /\ filter.regexpSource = <<"a", "/", "a", "d", "s">>
        /\ SchemeAnchored(rules[1].trigger["url-filter"])

(***************************************************************************)
(* Claims about the search range                                           *)
(***************************************************************************)
(* The callback has flagged a rule as redundant or has recorded a match *)
Compared ==
  \E k \in 1..Len(mergeableRulesInfo) :
    \/ mergeableRulesInfo[k].redundant
    \/ mergeableRulesInfo[k].matches # <<>>
    \/ mergeableRulesInfo[k].multiEditMatch # NoMatch

(* The number of positions between the two rules of the pair *)
Distance == IndexOfURLFilter(target) - IndexOfURLFilter(source)

(* C27: without exhaustive, the callbacks of the elimination of redundant *)
(* rules and of the search for close matches compare the rule at the      *)
(* position i with the next 1000 rules, the positions i + 1 to i + 1000,  *)
(* and with no rule further away; with exhaustive they compare it with    *)
(* every later rule.                                                      *)
C27_Next1000 ==
  returned =>
    (Compared <=> (options.merge = "all" \/ Distance <= 1000))

(* The rule at the position i + 1000 is compared with the rule at i with *)
(* exhaustive only, the rule at i + 999 always                           *)
C27_Next999 ==
  returned =>
    (Compared <=> (options.merge = "all" \/ Distance <= 999))

(* The rule 1000 positions later is not compared *)
C27_NotCompared ==
  /\ returned
  /\ options.merge = "auto"
  /\ Distance = 1000
  /\ ~Compared

(***************************************************************************)
(* Claims about async                                                      *)
(***************************************************************************)
(* The steps of the frame f whose callee has been called, in the order of *)
(* the calls                                                              *)
CalledOf(f) ==
  LET OfFrame(entry) == entry.frame = f
  IN SelectSeq(log, OfFrame)

AllCalled == groupIndex > Len(lengths)

(* C22: with merge auto one call of generateRules passes all the        *)
(* categories through the optimizer when there are more than 50000      *)
(* rules, and none when there are not: once the callee of every index   *)
(* has run, the decision was the same for every category that has       *)
(* rules.                                                               *)
C22_SameDecision ==
  (AllCalled /\ options.merge = "auto") =>
    \A i, j \in 1..Len(lengths) :
      (lengths[i] > 0 /\ lengths[j] > 0) =>
        (i \in mergedGroups <=> j \in mergedGroups)

(* Of 50001 rules the first category was merged, and the block rules, *)
(* which the 50000 rules left include, were not                      *)
C22_MergedInPart ==
  /\ AllCalled
  /\ options.merge = "auto"
  /\ reduceLengths(lengths, 0) = autoMergeThreshold
  /\ mergedGroups = {1}
  /\ lengths[3] > 0

====
